---- MODULE Spec2Model ----
(***************************************************************************)
(* Model of the ban detection and recovery core of web-scraper-ultra       *)
(* (src/ban_detector.py, class BanDetector) and of its proxy manager       *)
(* (src/smart_proxy_manager.py, class SmartProxyManager).                  *)
(*                                                                         *)
(* Numbers.  reputation_score is a Python float in the source.  It is      *)
(* modelled in fixed point: the integer ONE stands for 1.0 and every       *)
(* product is truncated to a multiple of 1/ONE.  Timestamps and waits are  *)
(* whole seconds; time.time() is the variable now, which starts at a       *)
(* positive epoch as the wall clock does.                                  *)
(*                                                                         *)
(* Python's None is the integer None (-1); every timestamp, wait and       *)
(* retry_after value of the model is non-negative.                         *)
(***************************************************************************)
EXTENDS Integers, Sequences, FiniteSets, TLC

(* ------------------------------ bounds -------------------------------- *)
\* cap on bans recorded per domain between resets
MaxBans == 11
\* cap on update_reputation calls per domain between resets
MaxRequests == 4
\* cap on recoveries per domain between resets, reputation store specification
MaxAttempts == 1
\* cap on execute_recovery calls per domain between resets, planner specification
MaxPlanAttempts == 2
\* seconds added by one step of the clock
TickStep == 60
\* the clock stops this many seconds after the epoch
MaxElapsed == 60
\* value of time.time() when the detector is constructed
Epoch == 1
\* cap on the length of a ban history, backoff specification
MaxHistory == 6
\* largest attempt number handed to calculate_wait_time, backoff specification
MaxBackoffAttempt == 7
\* largest number of pattern categories one drawn response body matches
MaxMatchedCategories == 2
\* cap on the proxies handed out by get_optimal_proxy, proxy manager specification
MaxSelections == 2
\* cap on the results reported, proxy manager specification
MaxReports == 1
\* cap on the proxies handed out beyond the past drawn, cleanup specification
MaxExtraRequests == 1
\* cap on the scrape calls a caller makes, scraper specification
MaxScrapes == 1

(* --------------------------- program values ---------------------------- *)
None == -1

\* fixed-point image of the float 1.0
ONE == 1000000

Domains == {"example.com"}

BanType == {"none", "rate_limit", "ip_ban", "captcha", "cloudflare", "access_denied",
            "behavioral", "geographic", "user_agent", "fingerprint", "temporary",
            "permanent"}

RecoveryStrategy == {"wait", "rotate_proxy", "solve_captcha", "change_fingerprint",
                     "slow_down", "change_pattern", "build_reputation", "abandon"}

\* self.recovery_strategies: the preference list of each ban type that has one
recovery_strategies ==
    [bt \in {"rate_limit", "ip_ban", "captcha", "cloudflare", "behavioral",
             "geographic", "user_agent", "fingerprint"} |->
        CASE bt = "rate_limit" -> <<"wait", "slow_down", "rotate_proxy">>
          [] bt = "ip_ban"     -> <<"rotate_proxy", "wait">>
          [] bt = "captcha"    -> <<"solve_captcha", "rotate_proxy">>
          [] bt = "cloudflare" -> <<"wait", "solve_captcha", "change_fingerprint">>
          [] bt = "behavioral" -> <<"change_pattern", "build_reputation">>
          [] bt = "geographic" -> <<"rotate_proxy">>
          [] bt = "user_agent" -> <<"change_fingerprint">>
          [] bt = "fingerprint" -> <<"change_fingerprint", "rotate_proxy">>]

\* self.recovery_config
max_retry_attempts == 5
base_wait_time == 5
max_wait_time == 300
reputation_threshold == (3 * ONE) \div 10
ban_threshold == 10

\* should_proceed: "Less than 1 minute since last ban"
ban_cooldown == 60

\* deque(maxlen=100)
history_maxlen == 100

\* self.ban_patterns in iteration order (a dict keeps insertion order)
ban_patterns_order == <<"rate_limit", "ip_ban", "captcha", "cloudflare",
                        "behavioral", "geographic", "user_agent">>

\* number of regular expressions listed under each key of self.ban_patterns
ban_patterns ==
    [rate_limit |-> 6, ip_ban |-> 7, captcha |-> 7, cloudflare |-> 6,
     behavioral |-> 5, geographic |-> 4, user_agent |-> 4]

\* every domain's entry of the defaultdict domain_reputation
fresh_reputation ==
    [requests |-> 0, successes |-> 0, bans |-> 0, last_ban |-> None,
     reputation_score |-> ONE]

Min(a, b) == IF a < b THEN a ELSE b
Max(a, b) == IF a > b THEN a ELSE b

\* the latest time the model's clock reaches
LastInstant == Epoch + MaxElapsed

(* ------------------------------- state --------------------------------- *)
VARIABLES
    ban_history,            \* domain -> sequence of ban events, oldest first
    recovery_attempts,      \* domain -> number of execute_recovery calls
    successful_recoveries,  \* domain -> sequence of [ban_type, strategy]
    domain_reputation,      \* domain -> reputation record
    now,                    \* time.time()
    response,               \* the response the fetch received, as detect_ban is handed it
    proxy_pools,            \* SmartProxyManager.proxy_pools: pool type -> list of proxies
    proxy_health,           \* SmartProxyManager.proxy_health, a dict in insertion order
    site_proxy_performance, \* SmartProxyManager.site_proxy_performance[url][proxy]
    total_cost,             \* SmartProxyManager.total_cost
    state_file,             \* the file proxy_state.json
    proxy_request,          \* the strategy and requirements the caller selects with
    workers,                \* each worker's place in get_optimal_proxy and its locals
    scraper,                \* UltraAdvancedScraper.scrape: its place, locals and stats
    ret                     \* the call that completed last and what it returned

vars == <<ban_history, recovery_attempts, successful_recoveries,
          domain_reputation, now, response, proxy_pools, proxy_health,
          site_proxy_performance, total_cost, state_file, proxy_request, workers,
          scraper, ret>>

\* the fields of the BanDetector object
detector_vars == <<ban_history, recovery_attempts, successful_recoveries,
                   domain_reputation>>

\* the fields of the SmartProxyManager object, its file and its caller's choice
proxy_vars == <<proxy_pools, proxy_health, site_proxy_performance, total_cost,
                state_file, proxy_request>>

\* the state kept outside the BanDetector object
outside_detector == <<response, proxy_vars>>

\* the callers of the two objects: what they hold is said where they call
callers == <<workers, scraper>>

\* detect_ban's default arguments: html_content = None, status_code = None,
\* headers = None
NoResponse ==
    [html_content |-> [matches |-> [c \in DOMAIN ban_patterns |-> 0],
                       error_indicator |-> FALSE],
     status_code |-> None,
     headers |-> [names |-> {}, remaining |-> ""]]

\* no call has completed yet, or time has passed since the last one
NoCall == [op |-> "none", domain |-> "", ban_type |-> "", strategy |-> "",
           arg |-> None, result |-> None, raised |-> ""]

\* a call that returned: domain is the domain or url it was about
Call(op, domain, ban_type, strategy, arg, result) ==
    [op |-> op, domain |-> domain, ban_type |-> ban_type, strategy |-> strategy,
     arg |-> arg, result |-> result, raised |-> ""]

\* a call that raised the exception instead of returning
Raise(call, exception) == [call EXCEPT !.raised = exception]

(* ------------------------- proxy manager values ------------------------ *)
\* A proxy descriptor is known by its place in proxy_catalog, which stands for
\* its 'url'; a datetime is [type |-> "datetime", at |-> seconds], its
\* isoformat() string is the same instant tagged "str", and None is no_time.
\* success_rate is percent in fixed point (100 * ONE is 100.0), a site's
\* success_rate is a fraction in fixed point; costs are in 1/10000 USD.

\* the keys of self.proxy_pools in iteration order
pool_types == <<"residential", "datacenter", "mobile", "static">>

\* the descriptors callers put in the pools: 'type' and 'country' of each
proxy_catalog ==
    <<[type |-> "residential", country |-> "US"],
      [type |-> "datacenter", country |-> "DE"]>>

Proxies == DOMAIN proxy_catalog

\* self.proxy_costs, and the 0.0001 that proxy_costs.get defaults to
proxy_costs == [residential |-> 10, datacenter |-> 1, mobile |-> 100, static |-> 5]

no_time == [type |-> "NoneType", at |-> 0]

\* datetime.now()
datetime_now == [type |-> "datetime", at |-> now]

\* datetime.min
datetime_min == [type |-> "datetime", at |-> 0]

\* datetime.isoformat() and str(datetime): a string, no longer a datetime
isoformat(time) == [type |-> "str", at |-> time.at]

\* truth value of a time field: None is false, a datetime or a string is true
truthy(time) == time.type # "NoneType"

\* the factory of the defaultdict proxy_health
fresh_health ==
    [success_count |-> 0, failure_count |-> 0, total_requests |-> 0,
     avg_response_time |-> <<>>, last_used |-> no_time, last_success |-> no_time,
     last_failure |-> no_time, blocked_sites |-> [type |-> "set", items |-> {}],
     success_rate |-> 100 * ONE]

\* the factory of the inner defaultdict of site_proxy_performance, with the
\* 0 that site_perf.get('success_count', 0) and .get('total_count', 0) read
fresh_site_perf ==
    [success_rate |-> 0, avg_response_time |-> 0, last_used |-> no_time,
     success_count |-> 0, total_count |-> 0]

\* A dict is the sequence of its (key, value) pairs in insertion order.
dict_keys(d) == {d[i][1] : i \in DOMAIN d}

dict_index(d, k) == CHOOSE i \in DOMAIN d : d[i][1] = k

\* defaultdict.__getitem__ creates the entry it does not find
dict_touch(d, k) == IF k \in dict_keys(d) THEN d ELSE Append(d, <<k, fresh_health>>)

\* the value read by self.proxy_health[k]
dict_get(d, k) == IF k \in dict_keys(d) THEN d[dict_index(d, k)][2] ELSE fresh_health

\* self.proxy_health[k] = v, or an update of the entry in place
dict_put(d, k, v) ==
    IF k \in dict_keys(d) THEN [d EXCEPT ![dict_index(d, k)] = <<k, v>>]
    ELSE Append(d, <<k, v>>)

\* del self.proxy_health[k]
dict_del(d, k) == SelectSeq(d, LAMBDA e : e[1] # k)

RECURSIVE dict_touch_all(_, _, _)
dict_touch_all(d, proxies, i) ==
    IF i > Len(proxies) THEN d
    ELSE dict_touch_all(dict_touch(d, proxies[i]), proxies, i + 1)

RECURSIVE Sum(_, _)
Sum(times, i) == IF i > Len(times) THEN 0 ELSE times[i] + Sum(times, i + 1)

\* requirements.get(key) is false for a key that is absent: "", 0 and FALSE
\* stand for the absent proxy_type and geo, rates and times, and flag.
\* min_success_rate is in hundredths (80 is 0.8).
no_requirements ==
    [proxy_type |-> "", avoid_datacenter |-> FALSE, min_success_rate |-> 0,
     max_response_time |-> 0, geo |-> ""]

\* the file proxy_state.json before it is first written
no_file ==
    [exists |-> FALSE, proxy_health |-> <<>>,
     site_proxy_performance |-> [url \in {} |-> 0], total_cost |-> 0]

\* the pages a caller fetches
Urls == {"https://example.com/page"}

\* the threads that call get_optimal_proxy
Workers == {1, 2}

\* a worker that is not inside get_optimal_proxy: available_proxies and
\* selected_proxy are the locals of that name, filtered tells whether
\* available_proxies is what _filter_proxies returned
idle_worker ==
    [pc |-> "idle", url |-> "", available_proxies |-> <<>>, filtered |-> FALSE,
     selected_proxy |-> None]

\* self.stats of UltraAdvancedScraper as __init__ leaves it; captchas_solved
\* is never written by scrape
fresh_stats ==
    [total_requests |-> 0, successful_requests |-> 0, failed_requests |-> 0,
     bans_detected |-> 0, proxies_rotated |-> 0]

\* no scrape call is running.  A running call is at pc in the innermost of
\* depth nested frames (return self.scrape(...) leaves the outer frames
\* nothing to do but return); url, proxy, result and ban_type are that
\* frame's locals, result being "None" until the fetch has returned,
\* "succeeded" for result['success'] true and "failed" otherwise.  When the
\* call has ended, depth and the locals are those of the frame that ended it.
idle_scraper ==
    [pc |-> "idle", depth |-> 0, url |-> "", proxy |-> None, result |-> "None",
     ban_type |-> "none", stats |-> fresh_stats]

\* nobody is inside a call
callers_idle ==
    /\ workers = [w \in Workers |-> idle_worker]
    /\ scraper = idle_scraper

\* the BanDetector as __init__ leaves it
detector_constructed ==
    /\ ban_history = [d \in Domains |-> <<>>]
    /\ recovery_attempts = [d \in Domains |-> 0]
    /\ successful_recoveries = [d \in Domains |-> <<>>]
    /\ domain_reputation = [d \in Domains |-> fresh_reputation]

\* the SmartProxyManager as __init__ leaves it when no WEBSHARE_API_KEY is set,
\* and a caller that selects as UltraAdvancedScraper.scrape does
manager_constructed ==
    /\ proxy_pools = [t \in {pool_types[i] : i \in DOMAIN pool_types} |-> <<>>]
    /\ proxy_health = <<>>
    /\ site_proxy_performance =
           [url \in Urls |-> [proxy \in Proxies |-> fresh_site_perf]]
    /\ total_cost = 0
    /\ state_file = no_file
    /\ proxy_request = [strategy |-> "ml_optimized", requirements |-> no_requirements]

Init ==
    /\ ban_history = [d \in Domains |-> <<>>]
    /\ recovery_attempts = [d \in Domains |-> 0]
    /\ successful_recoveries = [d \in Domains |-> <<>>]
    /\ domain_reputation = [d \in Domains |-> fresh_reputation]
    /\ now = Epoch
    /\ response = NoResponse
    /\ manager_constructed
    /\ callers_idle
    /\ ret = NoCall

(* ------------------------ Domain Reputation Store ---------------------- *)
\* record_ban that computes the product and leaves the stored score as it was
decay_on_ban_not_stored(score) == score

\* reputation['reputation_score'] *= 0.9
decay_on_ban(score) == (score * 9) \div 10

\* the success update without its min(1.0, ...)
gain_on_success_uncapped(score) == (score * 101) \div 100

\* min(1.0, reputation['reputation_score'] * 1.01)
gain_on_success(score) == Min(ONE, (score * 101) \div 100)

\* reputation['reputation_score'] *= 0.95
decay_on_failure(score) == (score * 95) \div 100

\* deque.append on a deque(maxlen=100): the oldest event is evicted when full
deque_append(history, event) ==
    LET all == Append(history, event)
    IN  IF Len(all) > history_maxlen
        THEN SubSeq(all, Len(all) - history_maxlen + 1, Len(all))
        ELSE all

\* record_ban(domain, ban_type, metadata): metadata is the value under the key
\* 'retry_after', or None when the key is absent (metadata or {}).  The event's
\* timestamp is not kept: only get_domain_health and analyze_ban_patterns read it.
record_ban(domain, ban_type, metadata) ==
    LET reputation == domain_reputation[domain]
        ban_event == [type |-> ban_type, retry_after |-> metadata]
    IN  /\ ban_history' = [ban_history EXCEPT
                             ![domain] = deque_append(@, ban_event)]
        /\ domain_reputation' = [domain_reputation EXCEPT ![domain] =
               [reputation EXCEPT
                   !.bans = @ + 1,
                   !.last_ban = now,
                   !.reputation_score = decay_on_ban(@)]]
        /\ ret' = Call("record_ban", domain, ban_type, "", metadata, None)
        /\ UNCHANGED <<outside_detector, recovery_attempts, successful_recoveries, now>>

update_reputation(domain, success) ==
    LET reputation == domain_reputation[domain]
    IN  /\ domain_reputation' = [domain_reputation EXCEPT ![domain] =
               IF success
               THEN [reputation EXCEPT
                        !.requests = @ + 1,
                        !.successes = @ + 1,
                        !.reputation_score = gain_on_success(@)]
               ELSE [reputation EXCEPT
                        !.requests = @ + 1,
                        !.reputation_score = decay_on_failure(@)]]
        /\ ret' = Call("update_reputation", domain, "", "", success, None)
        /\ UNCHANGED <<outside_detector, ban_history, recovery_attempts, successful_recoveries, now>>

\* should_proceed whose recency test is <= 60 instead of < 60
should_proceed_inclusive_cooldown(domain) ==
    LET reputation == domain_reputation[domain]
    IN  IF reputation.reputation_score < reputation_threshold THEN FALSE
        ELSE IF reputation.bans > ban_threshold THEN FALSE
        ELSE IF reputation.last_ban # None /\ reputation.last_ban # 0
                /\ now - reputation.last_ban <= ban_cooldown THEN FALSE
        ELSE TRUE

\* should_proceed without the ban frequency check
should_proceed_no_ban_count(domain) ==
    LET reputation == domain_reputation[domain]
    IN  IF reputation.reputation_score < reputation_threshold THEN FALSE
        ELSE IF reputation.last_ban # None /\ reputation.last_ban # 0
                /\ now - reputation.last_ban < ban_cooldown THEN FALSE
        ELSE TRUE

\* the value should_proceed(domain) returns in the current state.  last_ban is
\* tested for truth: None and 0 both skip the recency check.
should_proceed(domain) ==
    LET reputation == domain_reputation[domain]
    IN  IF reputation.reputation_score < reputation_threshold THEN FALSE
        ELSE IF reputation.bans > ban_threshold THEN FALSE
        ELSE IF reputation.last_ban # None /\ reputation.last_ban # 0
                /\ now - reputation.last_ban < ban_cooldown THEN FALSE
        ELSE TRUE

ShouldProceed(domain) ==
    /\ ret' = Call("should_proceed", domain, "", "", None, should_proceed(domain))
    /\ UNCHANGED <<outside_detector, ban_history, recovery_attempts, successful_recoveries,
                   domain_reputation, now>>

reset_domain(domain) ==
    /\ ban_history' = [ban_history EXCEPT ![domain] = <<>>]
    /\ recovery_attempts' = [recovery_attempts EXCEPT ![domain] = 0]
    /\ successful_recoveries' = [successful_recoveries EXCEPT ![domain] = <<>>]
    /\ domain_reputation' = [domain_reputation EXCEPT ![domain] = fresh_reputation]
    /\ ret' = Call("reset_domain", domain, "", "", None, None)
    /\ UNCHANGED <<now, outside_detector>>

(* --------------------------- Recovery Planner -------------------------- *)
\* self.recovery_strategies.get(ban_type, [RecoveryStrategy.WAIT])
strategies_for(ban_type) ==
    IF ban_type \in DOMAIN recovery_strategies
    THEN recovery_strategies[ban_type]
    ELSE <<"wait">>

\* the loop over successful_recoveries[domain]: the strategy of the first record
\* whose ban_type matches, "no_match" when the loop ends without one
RECURSIVE past_recovery_scan(_, _, _)
past_recovery_scan(records, i, ban_type) ==
    IF i > Len(records) THEN "no_match"
    ELSE IF records[i].ban_type = ban_type THEN records[i].strategy
    ELSE past_recovery_scan(records, i + 1, ban_type)

\* get_recovery_strategy that consults past recoveries before the abandon checks
get_recovery_strategy_reuse_first(domain, ban_type) ==
    LET strategies == strategies_for(ban_type)
        reputation == domain_reputation[domain]
        past == past_recovery_scan(successful_recoveries[domain], 1, ban_type)
    IN  IF past # "no_match" THEN past
        ELSE IF reputation.reputation_score < reputation_threshold THEN "abandon"
        ELSE IF reputation.bans > ban_threshold THEN "abandon"
        ELSE IF Len(strategies) > 0 THEN strategies[1] ELSE "wait"

\* get_recovery_strategy that falls back on the last entry of the list
get_recovery_strategy_last_preference(domain, ban_type) ==
    LET strategies == strategies_for(ban_type)
        reputation == domain_reputation[domain]
        past == past_recovery_scan(successful_recoveries[domain], 1, ban_type)
    IN  IF reputation.reputation_score < reputation_threshold THEN "abandon"
        ELSE IF reputation.bans > ban_threshold THEN "abandon"
        ELSE IF past # "no_match" THEN past
        ELSE IF Len(strategies) > 0 THEN strategies[Len(strategies)] ELSE "wait"

get_recovery_strategy(domain, ban_type) ==
    LET strategies == strategies_for(ban_type)
        reputation == domain_reputation[domain]
        past == past_recovery_scan(successful_recoveries[domain], 1, ban_type)
    IN  IF reputation.reputation_score < reputation_threshold THEN "abandon"
        ELSE IF reputation.bans > ban_threshold THEN "abandon"
        ELSE IF past # "no_match" THEN past
        ELSE IF Len(strategies) > 0 THEN strategies[1] ELSE "wait"

GetRecoveryStrategy(domain, ban_type) ==
    /\ ret' = Call("get_recovery_strategy", domain, ban_type, "", None,
                   get_recovery_strategy(domain, ban_type))
    /\ UNCHANGED <<outside_detector, ban_history, recovery_attempts, successful_recoveries,
                   domain_reputation, now>>

\* the slice taken one event short: [-4:]
recent_bans_short(history) ==
    SubSeq(history, Max(1, Len(history) - 3), Len(history))

\* list(self.ban_history[domain])[-5:]
recent_bans(history) ==
    SubSeq(history, Max(1, Len(history) - 4), Len(history))

\* the loop over recent_bans: wait_time = max(wait_time, suggested_wait) for
\* every event that carries retry_after
RECURSIVE raise_to_retry_after(_, _, _)
raise_to_retry_after(recent, i, wait_time) ==
    IF i > Len(recent) THEN wait_time
    ELSE IF recent[i].retry_after # None
         THEN raise_to_retry_after(recent, i + 1, Max(wait_time, recent[i].retry_after))
         ELSE raise_to_retry_after(recent, i + 1, wait_time)

\* base and exponent the wrong way round: base_wait ** attempt
exponential_backoff_swapped(attempt) == base_wait_time ^ attempt

\* base_wait * (2 ** attempt)
exponential_backoff(attempt) == base_wait_time * (2 ^ attempt)

\* calculate_wait_time that caps the backoff before raising it to retry_after
calculate_wait_time_cap_first(history, attempt, jitter) ==
    LET wait_time == Min(exponential_backoff(attempt) + jitter, max_wait_time)
    IN  raise_to_retry_after(recent_bans(history), 1, wait_time)

\* calculate_wait_time(domain, attempt) on the domain's ban history; jitter is
\* the draw random.uniform(0, base_wait)
calculate_wait_time(history, attempt, jitter) ==
    LET wait_time == exponential_backoff(attempt) + jitter
        raised == raise_to_retry_after(recent_bans(history), 1, wait_time)
    IN  Min(raised, max_wait_time)

\* result['new_config'] of each strategy, as the set of keys it sets
new_config_of(strategy) ==
    CASE strategy = "rotate_proxy" -> {"rotate_proxy"}
      [] strategy = "solve_captcha" -> {"solve_captcha"}
      [] strategy = "change_fingerprint" -> {"new_fingerprint", "new_user_agent"}
      [] strategy = "slow_down" -> {"delay_multiplier"}
      [] strategy = "change_pattern" -> {"randomize_pattern", "add_referrer"}
      [] strategy = "build_reputation" -> {"reputation_mode", "visit_count"}
      [] OTHER -> {}

\* the BUILD_REPUTATION branch without its result['success'] = True
strategy_succeeds_but_one(strategy) ==
    strategy \in RecoveryStrategy \ {"abandon", "build_reputation"}

\* result['success'] of each strategy
\* execute_recovery whose ABANDON branch reports success as the others do
strategy_succeeds_always(strategy) == strategy \in RecoveryStrategy

strategy_succeeds(strategy) == strategy \in RecoveryStrategy \ {"abandon"}

\* execute_recovery(domain, ban_type, strategy); WAIT sleeps for the wait it
\* computed, so the clock has advanced by it when the call returns
execute_recovery(domain, ban_type, strategy, jitter) ==
    LET wait_time == IF strategy = "wait"
                     THEN calculate_wait_time(ban_history[domain],
                                              recovery_attempts[domain], jitter)
                     ELSE 0
        result == [success |-> strategy_succeeds(strategy),
                   strategy |-> strategy,
                   wait_time |-> wait_time,
                   new_config |-> new_config_of(strategy)]
    IN  /\ now' = now + wait_time
        /\ recovery_attempts' = [recovery_attempts EXCEPT ![domain] = @ + 1]
        /\ successful_recoveries' =
               IF result.success
               THEN [successful_recoveries EXCEPT ![domain] =
                        Append(@, [ban_type |-> ban_type, strategy |-> strategy])]
               ELSE successful_recoveries
        /\ ret' = Call("execute_recovery", domain, ban_type, strategy, None, result)
        /\ UNCHANGED <<outside_detector, ban_history, domain_reputation>>

\* calculate_wait_time called on its own
CalculateWaitTime(domain, attempt, jitter) ==
    /\ ret' = Call("calculate_wait_time", domain, "", "", attempt,
                   calculate_wait_time(ban_history[domain], attempt, jitter))
    /\ UNCHANGED <<outside_detector, ban_history, recovery_attempts, successful_recoveries,
                   domain_reputation, now>>

\* time passes between calls
Tick ==
    /\ now + TickStep <= LastInstant
    /\ now' = now + TickStep
    /\ ret' = NoCall
    /\ UNCHANGED <<outside_detector, ban_history, recovery_attempts, successful_recoveries,
                   domain_reputation>>

(* ---------------- specification of the reputation store ---------------- *)
\* ban types the fetch loop reports in this specification
SeenBanTypes == {"rate_limit"}

\* draws of random.uniform(0, base_wait): both ends of the interval
JitterDraws == {0, base_wait_time}

\* the caller hands execute_recovery the strategy get_recovery_strategy chose,
\* as UltraAdvancedScraper.scrape does
Recover(domain, ban_type) ==
    LET strategy == get_recovery_strategy(domain, ban_type)
    IN  \E jitter \in JitterDraws :
            /\ recovery_attempts[domain] < MaxAttempts
            /\ execute_recovery(domain, ban_type, strategy, jitter)
            /\ now' <= LastInstant

Next ==
    \E domain \in Domains :
        \/ /\ domain_reputation[domain].bans < MaxBans
           /\ \E ban_type \in SeenBanTypes : record_ban(domain, ban_type, None)
           /\ UNCHANGED callers
        \/ /\ domain_reputation[domain].requests < MaxRequests
           /\ \E success \in BOOLEAN : update_reputation(domain, success)
           /\ UNCHANGED callers
        \/ ShouldProceed(domain) /\ UNCHANGED callers
        \/ /\ \E ban_type \in SeenBanTypes : GetRecoveryStrategy(domain, ban_type)
           /\ UNCHANGED callers
        \/ /\ \E ban_type \in SeenBanTypes : Recover(domain, ban_type)
           /\ UNCHANGED callers
        \/ reset_domain(domain) /\ UNCHANGED callers
        \/ Tick /\ UNCHANGED callers

Spec == Init /\ [][Next]_vars

(* ------------------ specification of the recovery planner -------------- *)
\* failed requests the domain has seen before planning starts
PriorFailures == {0, 24}

RECURSIVE after_failures(_, _)
after_failures(reputation, n) ==
    IF n = 0 THEN reputation
    ELSE after_failures([reputation EXCEPT
                            !.requests = @ + 1,
                            !.reputation_score = decay_on_failure(@)], n - 1)

\* ban types handed to the planner: one with a preference list, one without
PlanBanTypes == {"captcha", "temporary"}

\* (ban type, strategy) pairs handed to execute_recovery: every strategy for
\* the first ban type, one strategy that is not its default for the second
PlanRecoveries ==
    ({"captcha"} \X RecoveryStrategy) \cup {<<"temporary", "rotate_proxy">>}

InitPlan ==
    /\ ban_history = [d \in Domains |-> <<>>]
    /\ recovery_attempts = [d \in Domains |-> 0]
    /\ successful_recoveries = [d \in Domains |-> <<>>]
    /\ \E n \in PriorFailures :
          domain_reputation = [d \in Domains |-> after_failures(fresh_reputation, n)]
    /\ now = Epoch
    /\ response = NoResponse
    /\ manager_constructed
    /\ callers_idle
    /\ ret = NoCall

NextPlan ==
    \E domain \in Domains :
        \/ /\ domain_reputation[domain].bans < MaxBans
           /\ \E ban_type \in SeenBanTypes : record_ban(domain, ban_type, None)
           /\ UNCHANGED callers
        \/ /\ \E ban_type \in PlanBanTypes : GetRecoveryStrategy(domain, ban_type)
           /\ UNCHANGED callers
        \/ \E recovery \in PlanRecoveries, jitter \in JitterDraws :
              /\ recovery_attempts[domain] < MaxPlanAttempts
              /\ execute_recovery(domain, recovery[1], recovery[2], jitter)
              /\ now' <= LastInstant
              /\ UNCHANGED callers
        \/ reset_domain(domain) /\ UNCHANGED callers

SpecPlan == InitPlan /\ [][NextPlan]_vars

(* ------------------- specification of the backoff ---------------------- *)
\* retry_after values a caller attaches to a ban: below and above max_wait_time
RetryAfterValues == {30, 400}

NextWait ==
    \E domain \in Domains :
        \/ /\ Len(ban_history[domain]) < MaxHistory
           /\ \E ban_type \in SeenBanTypes, metadata \in RetryAfterValues \cup {None} :
                 record_ban(domain, ban_type, metadata)
           /\ UNCHANGED callers
        \/ \E attempt \in 0..MaxBackoffAttempt, jitter \in JitterDraws :
              /\ CalculateWaitTime(domain, attempt, jitter)
              /\ UNCHANGED callers
        \/ reset_domain(domain) /\ UNCHANGED callers

SpecWait == Init /\ [][NextWait]_vars

(* ------------------------------ Ban Classifier ------------------------- *)
\* A confidence is a Python float with two decimals in the source; the model
\* counts hundredths, so 0.95 is 95.  Every comparison of the source is between
\* such values (3 * 0.3 is 0.8999999999999999 in floating point, which stands
\* on the same side of 0.8 and of 0.95 as 0.9 does).
no_verdict == [ban_type |-> "none", confidence |-> 0]

\* the smallest number of matches whose confidence is the 0.95 ceiling
saturating_matches == (95 \div 30) + 1

\* the slope with which two matches already outweigh the 403 prior
pattern_confidence_steep(matches) == Min(matches * 45, 95)

\* pattern_confidence = min(matches * 0.3, 0.95)
pattern_confidence(matches) == Min(matches * 30, 95)

\* the status prior that treats 429 like any other error status
status_prior_429_unclassified(status_code) ==
    CASE status_code = None -> [verdict |-> no_verdict, returned |-> FALSE]
      [] status_code = 403 ->
            [verdict |-> [ban_type |-> "ip_ban", confidence |-> 80], returned |-> FALSE]
      [] status_code = 503 ->
            [verdict |-> [ban_type |-> "cloudflare", confidence |-> 70], returned |-> FALSE]
      [] status_code >= 400 ->
            [verdict |-> [ban_type |-> "none", confidence |-> 50], returned |-> FALSE]
      [] OTHER -> [verdict |-> no_verdict, returned |-> FALSE]

\* the status prior that scores every status code, the successful ones included
status_prior_every_status(status_code) ==
    CASE status_code = None -> [verdict |-> no_verdict, returned |-> FALSE]
      [] status_code = 429 ->
            [verdict |-> [ban_type |-> "rate_limit", confidence |-> 95], returned |-> TRUE]
      [] status_code = 403 ->
            [verdict |-> [ban_type |-> "ip_ban", confidence |-> 80], returned |-> FALSE]
      [] status_code = 503 ->
            [verdict |-> [ban_type |-> "cloudflare", confidence |-> 70], returned |-> FALSE]
      [] OTHER -> [verdict |-> [ban_type |-> "none", confidence |-> 50], returned |-> FALSE]

\* "if status_code:" and its branches; returned tells that 429 returns at once
status_prior(status_code) ==
    CASE status_code = None -> [verdict |-> no_verdict, returned |-> FALSE]
      [] status_code = 429 ->
            [verdict |-> [ban_type |-> "rate_limit", confidence |-> 95], returned |-> TRUE]
      [] status_code = 403 ->
            [verdict |-> [ban_type |-> "ip_ban", confidence |-> 80], returned |-> FALSE]
      [] status_code = 503 ->
            [verdict |-> [ban_type |-> "cloudflare", confidence |-> 70], returned |-> FALSE]
      [] status_code >= 400 ->
            [verdict |-> [ban_type |-> "none", confidence |-> 50], returned |-> FALSE]
      [] OTHER -> [verdict |-> no_verdict, returned |-> FALSE]

\* the loop over self.ban_patterns.items(): html_content.matches[c] is the
\* number of patterns of category c that re.search finds in the lowered body
RECURSIVE body_scan(_, _, _)
body_scan(html_content, i, verdict) ==
    IF i > Len(ban_patterns_order) THEN verdict
    ELSE LET ban_type_check == ban_patterns_order[i]
             matches == html_content.matches[ban_type_check]
         IN  IF matches > 0 /\ pattern_confidence(matches) > verdict.confidence
             THEN body_scan(html_content, i + 1,
                            [ban_type |-> ban_type_check,
                             confidence |-> pattern_confidence(matches)])
             ELSE body_scan(html_content, i + 1, verdict)

\* str.lower() on the header names a response carries
lower(name) ==
    CASE name = "CF-RAY" -> "cf-ray"
      [] name = "CF-Cache-Status" -> "cf-cache-status"
      [] name = "X-RateLimit-Remaining" -> "x-ratelimit-remaining"
      [] name = "Retry-After" -> "retry-after"
      [] OTHER -> name

\* headers_lower = {k.lower(): v.lower() ...}: the names present, lowered
headers_lower(headers) == {lower(k) : k \in headers.names}

\* the Cloudflare headers: they speak only when nothing else has named a type
cloudflare_headers(names, verdict) ==
    IF ("cf-ray" \in names \/ "cf-cache-status" \in names) /\ verdict.ban_type = "none"
    THEN [ban_type |-> "cloudflare", confidence |-> Max(verdict.confidence, 60)]
    ELSE verdict

\* the rate limit headers with the retry-after branch left out
rate_limit_headers_remaining_only(headers) ==
    IF "x-ratelimit-remaining" \in headers_lower(headers) /\ headers.remaining = "0"
    THEN [ban_type |-> "rate_limit", confidence |-> 99]
    ELSE no_verdict

\* the two returns of the header block; no_verdict when neither is taken
rate_limit_headers(headers) ==
    IF "x-ratelimit-remaining" \in headers_lower(headers) /\ headers.remaining = "0"
    THEN [ban_type |-> "rate_limit", confidence |-> 99]
    ELSE IF "retry-after" \in headers_lower(headers)
    THEN [ban_type |-> "rate_limit", confidence |-> 95]
    ELSE no_verdict

\* the closing look for error-page markup, taken only while the type is NONE
error_indicators(html_content, verdict) ==
    IF html_content.error_indicator /\ verdict.ban_type = "none"
    THEN [ban_type |-> "access_denied", confidence |-> 70]
    ELSE verdict

\* detect_ban(html_content, status_code, headers) -> (ban_type, confidence)
detect_ban(html_content, status_code, headers) ==
    LET prior == status_prior(status_code)
        scanned == body_scan(html_content, 1, prior.verdict)
        corroborated == cloudflare_headers(headers_lower(headers), scanned)
    IN  IF prior.returned THEN prior.verdict
        ELSE IF rate_limit_headers(headers) # no_verdict THEN rate_limit_headers(headers)
        ELSE error_indicators(html_content, corroborated)

DetectBan ==
    /\ ret' = Call("detect_ban", "", "", "", response,
                   detect_ban(response.html_content, response.status_code,
                              response.headers))
    /\ UNCHANGED <<ban_history, recovery_attempts, successful_recoveries,
                   domain_reputation, now, response, proxy_vars>>

(* -------------------- specification of the classifier ------------------ *)
\* status codes of a response; None when the caller passes none
StatusCodes == {None, 200, 403, 404, 429, 503}

\* categories whose patterns one drawn body matches
MatchedCategories ==
    {S \in SUBSET DOMAIN ban_patterns : Cardinality(S) <= MaxMatchedCategories}

\* a body is known to the classifier by how many patterns of each category it
\* matches and by whether it holds one of the five error-page markers; the
\* empty body matches nothing.  Matches past saturating_matches change no
\* confidence.
Bodies ==
    UNION {{[matches |-> [c \in DOMAIN ban_patterns |-> IF c \in S THEN m[c] ELSE 0],
             error_indicator |-> e] :
               m \in [S -> 1..saturating_matches], e \in BOOLEAN} :
           S \in MatchedCategories}

\* response headers: any of the four names the classifier reads, as servers
\* spell them, and the value of X-RateLimit-Remaining when it is present
HeaderNames == {"CF-RAY", "CF-Cache-Status", "X-RateLimit-Remaining", "Retry-After"}

Headers ==
    {h \in [names : SUBSET HeaderNames, remaining : {"", "0", "5"}] :
        ("X-RateLimit-Remaining" \in h.names) <=> (h.remaining # "")}

\* the responses a fetch can hand to detect_ban
Responses == [html_content : Bodies, status_code : StatusCodes, headers : Headers]

InitDetect ==
    /\ ban_history = [d \in Domains |-> <<>>]
    /\ recovery_attempts = [d \in Domains |-> 0]
    /\ successful_recoveries = [d \in Domains |-> <<>>]
    /\ \E n \in PriorFailures :
          domain_reputation = [d \in Domains |-> after_failures(fresh_reputation, n)]
    /\ now = Epoch
    /\ response \in Responses
    /\ manager_constructed
    /\ callers_idle
    /\ ret = NoCall

NextDetect == DetectBan /\ UNCHANGED callers

SpecDetect == InitDetect /\ [][NextDetect]_vars

(* ----------------------------- Proxy Manager --------------------------- *)
cooldown == 30

\* the measurements health['avg_response_time'] keeps
response_window == 100

\* the requests a proxy must have passed before cleanup looks at its rate
enough_attempts == 20

\* the two tests that make _filter_proxies pass over a whole pool
pool_skipped(pool_type, requirements) ==
    \/ requirements.proxy_type # "" /\ pool_type # requirements.proxy_type
    \/ requirements.avoid_datacenter /\ pool_type = "datacenter"

\* the three tests of a proxy that come before the cooldown test
meets_requirements(proxy, health, requirements) ==
    /\ ~(/\ requirements.min_success_rate # 0
         /\ health.success_rate < requirements.min_success_rate * ONE)
    /\ ~(/\ requirements.max_response_time # 0
         /\ health.avg_response_time # <<>>
         /\ Sum(health.avg_response_time, 1) >
                requirements.max_response_time * Len(health.avg_response_time))
    /\ ~(requirements.geo # "" /\ proxy_catalog[proxy].country # requirements.geo)

\* the cooldown test that never finds a proxy resting
resting_never(health) == FALSE

\* datetime.now() - health['last_used'] < timedelta(seconds=30)
resting(health) == now - health.last_used.at < cooldown

\* the proxies of the pools that are not passed over, in iteration order
RECURSIVE scanned_proxies(_, _, _)
scanned_proxies(pools, requirements, i) ==
    IF i > Len(pool_types) THEN <<>>
    ELSE (IF pool_skipped(pool_types[i], requirements) THEN <<>>
          ELSE pools[pool_types[i]])
         \o scanned_proxies(pools, requirements, i + 1)

\* the loop of _filter_proxies over those proxies; it ends early, raising
\* TypeError, when it subtracts a last_used that is a string
RECURSIVE filter_scan(_, _, _, _, _)
filter_scan(proxies, i, requirements, filtered, healths) ==
    IF i > Len(proxies)
    THEN [filtered |-> filtered, proxy_health |-> healths, raised |-> ""]
    ELSE LET proxy == proxies[i]
             touched == dict_touch(healths, proxy)
             health == dict_get(touched, proxy)
         IN  IF ~meets_requirements(proxy, health, requirements)
             THEN filter_scan(proxies, i + 1, requirements, filtered, touched)
             ELSE IF truthy(health.last_used) /\ health.last_used.type = "str"
             THEN [filtered |-> filtered, proxy_health |-> touched,
                   raised |-> "TypeError"]
             ELSE IF truthy(health.last_used) /\ resting(health)
             THEN filter_scan(proxies, i + 1, requirements, filtered, touched)
             ELSE filter_scan(proxies, i + 1, requirements,
                              Append(filtered, proxy), touched)

\* _filter_proxies(requirements)
filter_proxies(requirements) ==
    filter_scan(scanned_proxies(proxy_pools, requirements, 1), 1, requirements,
                <<>>, proxy_health)

\* _get_all_proxies()
get_all_proxies == scanned_proxies(proxy_pools, no_requirements, 1)

\* the first proxy of a list whose key is least: min(proxies, key=...) and
\* sorted(proxies, key=...)[0], both of which keep the list order among equals
first_least(proxies, key(_)) ==
    LET i == CHOOSE i \in DOMAIN proxies :
                 /\ \A j \in DOMAIN proxies : key(proxies[i]) <= key(proxies[j])
                 /\ \A j \in 1..(i - 1) : key(proxies[j]) > key(proxies[i])
    IN  proxies[i]

\* what a selection strategy hands back: the proxies it may return (one for a
\* strategy that computes its choice, several for one that draws it), the
\* health entries its reads created, and the exception it raised, if any
selection(picks, healths, raised) ==
    [picks |-> picks, proxy_health |-> healths, raised |-> raised]

\* _round_robin_selection: the sort key is last_used or datetime.min, and
\* sorted() raises TypeError when it compares a string with a datetime
round_robin_selection(proxies, url, healths) ==
    LET touched == dict_touch_all(healths, proxies, 1)
        sort_key(p) == IF truthy(dict_get(touched, p).last_used)
                       THEN dict_get(touched, p).last_used ELSE datetime_min
        types == {sort_key(proxies[i]).type : i \in DOMAIN proxies}
        at(p) == sort_key(p).at
    IN  IF Cardinality(types) > 1 THEN selection({}, touched, "TypeError")
        ELSE selection({first_least(proxies, at)}, touched, "")

\* the weight _weighted_random_selection gives a proxy before it normalises,
\* with no minimum
selection_weight_unfloored(proxy, url, healths) ==
    LET weight == dict_get(healths, proxy).success_rate \div 100
        site_perf == site_proxy_performance[url][proxy]
    IN  IF site_perf.success_rate > 0
        THEN weight + (weight \div 1000) * (site_perf.success_rate \div 1000)
        ELSE weight

\* the weight _weighted_random_selection gives a proxy before it normalises:
\* success_rate / 100.0, times 1 + the site's success_rate when that is
\* positive, and at least 0.1.  ONE * ONE is beyond the integers of the
\* checker, so the product is taken on the two factors cut to thousandths.
selection_weight(proxy, url, healths) ==
    LET weight == dict_get(healths, proxy).success_rate \div 100
        site_perf == site_proxy_performance[url][proxy]
        boosted == IF site_perf.success_rate > 0
                   THEN weight + (weight \div 1000) * (site_perf.success_rate \div 1000)
                   ELSE weight
    IN  Max(boosted, ONE \div 10)

\* sum(weights)
RECURSIVE total_weight(_, _, _, _)
total_weight(proxies, url, healths, i) ==
    IF i > Len(proxies) THEN 0
    ELSE selection_weight(proxies[i], url, healths)
             + total_weight(proxies, url, healths, i + 1)

\* _weighted_random_selection: np.random.choice(proxies, p=weights) returns a
\* proxy whose probability is positive; the weights are divided by their sum,
\* or are all 1/len(proxies) when the sum is 0
weighted_random_selection(proxies, url, healths) ==
    LET touched == dict_touch_all(healths, proxies, 1)
    IN  selection({proxies[i] : i \in
                      {j \in DOMAIN proxies :
                          \/ total_weight(proxies, url, touched, 1) = 0
                          \/ selection_weight(proxies[j], url, touched) > 0}},
                  touched, "")

\* _ml_optimized_selection: the proxy with the highest predict_proba score.
\* The score of the random forest is not computed here: any proxy of the list
\* may be the one that scores highest.
ml_optimized_selection(proxies, url, healths) ==
    selection({proxies[i] : i \in DOMAIN proxies},
              dict_touch_all(healths, proxies, 1), "")

\* _detect_target_country(url): the first country suffix found in the url,
\* 'US' when there is none
detect_target_country(url) ==
    CASE url = "https://shop.example.de/item" -> "DE"
      [] OTHER -> "US"

\* _geo_targeted_selection
geo_targeted_selection(proxies, url, healths) ==
    LET geo_proxies == SelectSeq(proxies, LAMBDA p :
                           proxy_catalog[p].country = detect_target_country(url))
    IN  IF geo_proxies # <<>> THEN weighted_random_selection(geo_proxies, url, healths)
        ELSE weighted_random_selection(proxies, url, healths)

\* _least_used_selection
least_used_selection(proxies, url, healths) ==
    LET touched == dict_touch_all(healths, proxies, 1)
        total_requests(p) == dict_get(touched, p).total_requests
    IN  selection({first_least(proxies, total_requests)}, touched, "")

\* the score _best_performing_selection gives a proxy: the site's success_rate,
\* a fraction, or the proxy's own success_rate, a percentage, when that is 0
site_score(proxy, url, healths) ==
    IF site_proxy_performance[url][proxy].success_rate # 0
    THEN site_proxy_performance[url][proxy].success_rate
    ELSE dict_get(healths, proxy).success_rate

RECURSIVE touch_unscored(_, _, _, _)
touch_unscored(healths, proxies, url, i) ==
    IF i > Len(proxies) THEN healths
    ELSE touch_unscored(
             IF site_proxy_performance[url][proxies[i]].success_rate = 0
             THEN dict_touch(healths, proxies[i]) ELSE healths,
             proxies, url, i + 1)

\* _best_performing_selection: sorted by score, highest first
best_performing_selection(proxies, url, healths) ==
    LET touched == touch_unscored(healths, proxies, url, 1)
        negated_score(p) == 0 - site_score(p, url, touched)
    IN  selection({first_least(proxies, negated_score)}, touched, "")

\* the keys of self.rotation_strategies
rotation_strategies ==
    {"round_robin", "weighted_random", "ml_optimized", "geo_targeted",
     "least_used", "best_performing"}

\* self.rotation_strategies.get(strategy, self._weighted_random_selection)
\* applied to the candidates
strategy_func(strategy, proxies, url, healths) ==
    CASE strategy = "round_robin" -> round_robin_selection(proxies, url, healths)
      [] strategy = "ml_optimized" -> ml_optimized_selection(proxies, url, healths)
      [] strategy = "geo_targeted" -> geo_targeted_selection(proxies, url, healths)
      [] strategy = "least_used" -> least_used_selection(proxies, url, healths)
      [] strategy = "best_performing" -> best_performing_selection(proxies, url, healths)
      [] OTHER -> weighted_random_selection(proxies, url, healths)

\* _update_proxy_usage(proxy, url) on the health entries
update_proxy_usage(healths, proxy) ==
    dict_put(healths, proxy,
             [dict_get(healths, proxy) EXCEPT !.last_used = datetime_now,
                                              !.total_requests = @ + 1])

\* proxy_costs.get(proxy_type, 0.0001)
cost_of(proxy) == proxy_costs[proxy_catalog[proxy].type]

\* get_optimal_proxy(url, strategy, requirements)
\* (the scan and the strategy's choice are each computed once and held as
\* values)
get_optimal_proxy(url, strategy, requirements) ==
    \E scan \in {filter_proxies(requirements)} :
    LET available_proxies == IF scan.filtered # <<>> THEN scan.filtered
                             ELSE get_all_proxies
        call == Call("get_optimal_proxy", url, "", strategy, requirements, None)
    IN  IF scan.raised # ""
        THEN /\ proxy_health' = scan.proxy_health
             /\ ret' = Raise(call, scan.raised)
             /\ UNCHANGED total_cost
        ELSE IF available_proxies = <<>>
        THEN /\ proxy_health' = scan.proxy_health
             /\ ret' = call
             /\ UNCHANGED total_cost
        ELSE \E chosen \in {strategy_func(strategy, available_proxies, url,
                                          scan.proxy_health)} :
             IF chosen.raised # ""
             THEN /\ proxy_health' = chosen.proxy_health
                  /\ ret' = Raise(call, chosen.raised)
                  /\ UNCHANGED total_cost
             ELSE \E selected_proxy \in chosen.picks :
                     /\ proxy_health' = update_proxy_usage(chosen.proxy_health,
                                                           selected_proxy)
                     /\ total_cost' = total_cost + cost_of(selected_proxy)
                     /\ ret' = [call EXCEPT !.result = selected_proxy]

GetOptimalProxy(url) ==
    /\ get_optimal_proxy(url, proxy_request.strategy, proxy_request.requirements)
    /\ UNCHANGED <<proxy_pools, site_proxy_performance, state_file, proxy_request,
                   now, response, detector_vars>>

\* 'blocked' in error.lower(), for the error texts a caller reports; "" stands
\* for error=None
mentions_blocked(error) == error \in {"Blocked by target", "IP BLOCKED"}

\* health['avg_response_time'][-100:]
last_measurements(times) ==
    IF Len(times) > response_window
    THEN SubSeq(times, Len(times) - response_window + 1, Len(times))
    ELSE times

\* success_count / total * 100, and 100.0 when nothing has been reported
success_rate_of(health) ==
    LET total == health.success_count + health.failure_count
    IN  IF total > 0 THEN (health.success_count * 100 * ONE) \div total ELSE 100 * ONE

\* the update of site_proxy_performance[url][proxy_id] in report_proxy_result:
\* last_used always, the counts and the rates under "if success:"
site_update(site_perf, success, response_time) ==
    LET used == [site_perf EXCEPT !.last_used = datetime_now]
        current_success == site_perf.success_count + 1
        current_total == site_perf.total_count + 1
    IN  IF ~success THEN used
        ELSE [used EXCEPT
                 !.success_count = current_success,
                 !.total_count = current_total,
                 !.success_rate = (current_success * ONE) \div current_total,
                 !.avg_response_time =
                     IF response_time # 0
                     THEN (@ * (current_total - 1) + response_time * ONE)
                              \div current_total
                     ELSE @]

\* report_proxy_result(proxy, url, success, response_time, error); 0 stands for
\* response_time=None.  A blocked failure reported after save_state has turned
\* blocked_sites into a list raises AttributeError once the failure is counted.
report_proxy_result(proxy, url, success, response_time, error) ==
    LET health == dict_get(proxy_health, proxy)
        call == Call("report_proxy_result", url, "", "",
                     [proxy |-> proxy, success |-> success,
                      response_time |-> response_time, error |-> error], None)
        counted == IF success
                   THEN [health EXCEPT !.success_count = @ + 1,
                                       !.last_success = datetime_now]
                   ELSE [health EXCEPT !.failure_count = @ + 1,
                                       !.last_failure = datetime_now]
        blocked == ~success /\ error # "" /\ mentions_blocked(error)
        tracked == IF blocked
                   THEN [counted EXCEPT !.blocked_sites.items = @ \cup {url}]
                   ELSE counted
        rated == [tracked EXCEPT !.success_rate = success_rate_of(tracked)]
        timed == IF response_time # 0
                 THEN [rated EXCEPT !.avg_response_time =
                                        last_measurements(Append(@, response_time))]
                 ELSE rated
    IN  IF blocked /\ health.blocked_sites.type = "list"
        THEN /\ proxy_health' = dict_put(proxy_health, proxy, counted)
             /\ ret' = Raise(call, "AttributeError")
             /\ UNCHANGED site_proxy_performance
        ELSE /\ proxy_health' = dict_put(proxy_health, proxy, timed)
             /\ site_proxy_performance' =
                    [site_proxy_performance EXCEPT ![url][proxy] =
                        site_update(@, success, response_time)]
             /\ ret' = call

ReportProxyResult(proxy, url, success, response_time, error) ==
    /\ report_proxy_result(proxy, url, success, response_time, error)
    /\ UNCHANGED <<proxy_pools, total_cost, state_file, proxy_request, now,
                   response, detector_vars>>

\* the test of cleanup_failed_proxies with no floor on the attempts
failing_unsampled(health, failure_threshold) ==
    health.success_rate < failure_threshold * ONE

\* health['total_requests'] > 20 and health['success_rate'] < failure_threshold * 100
\* (failure_threshold is in hundredths: 30 is 0.3)
failing(health, failure_threshold) ==
    /\ health.total_requests > enough_attempts
    /\ health.success_rate < failure_threshold * ONE

RECURSIVE dict_del_all(_, _, _)
dict_del_all(d, proxies, i) ==
    IF i > Len(proxies) THEN d
    ELSE dict_del_all(dict_del(d, proxies[i]), proxies, i + 1)

\* the body of cleanup_failed_proxies' loop for the pools from the i-th on
RECURSIVE cleanup_pools(_, _, _, _, _)
cleanup_pools(pools, healths, failure_threshold, i, removed_count) ==
    IF i > Len(pool_types)
    THEN [proxy_pools |-> pools, proxy_health |-> healths,
          removed_count |-> removed_count]
    ELSE LET proxies == pools[pool_types[i]]
             touched == dict_touch_all(healths, proxies, 1)
             to_remove == SelectSeq(proxies, LAMBDA p :
                              failing(dict_get(touched, p), failure_threshold))
             kept == SelectSeq(proxies, LAMBDA p :
                         ~failing(dict_get(touched, p), failure_threshold))
         IN  cleanup_pools([pools EXCEPT ![pool_types[i]] = kept],
                           dict_del_all(touched, to_remove, 1),
                           failure_threshold, i + 1,
                           removed_count + Len(to_remove))

\* cleanup_failed_proxies(failure_threshold) -> removed_count
cleanup_failed_proxies(failure_threshold) ==
    LET cleaned == cleanup_pools(proxy_pools, proxy_health, failure_threshold, 1, 0)
    IN  /\ proxy_pools' = cleaned.proxy_pools
        /\ proxy_health' = cleaned.proxy_health
        /\ ret' = Call("cleanup_failed_proxies", "", "", "", failure_threshold,
                       cleaned.removed_count)
        /\ UNCHANGED <<site_proxy_performance, total_cost, state_file, proxy_request,
                       now, response, detector_vars>>

\* the loop of save_state over 'last_used', 'last_success', 'last_failure' of
\* one entry: a datetime becomes its isoformat() string in the entry itself,
\* and a value that is a string already has no isoformat to call
time_keys == <<"last_used", "last_success", "last_failure">>

RECURSIVE stringify_times(_, _)
stringify_times(health, i) ==
    IF i > Len(time_keys) THEN [health |-> health, raised |-> ""]
    ELSE LET key == time_keys[i]
         IN  IF ~truthy(health[key]) THEN stringify_times(health, i + 1)
             ELSE IF health[key].type = "str"
             THEN [health |-> health, raised |-> "AttributeError"]
             ELSE stringify_times([health EXCEPT ![key] = isoformat(@)], i + 1)

\* the loop of save_state over state['proxy_health'].items(); dict() copies
\* the mapping, not the entries, so what it writes lands in self.proxy_health
RECURSIVE serialize_health(_, _)
serialize_health(healths, i) ==
    IF i > Len(healths) THEN [proxy_health |-> healths, raised |-> ""]
    ELSE LET listed == [healths[i][2] EXCEPT !.blocked_sites.type = "list"]
             strung == stringify_times(listed, 1)
             stored == [healths EXCEPT ![i] = <<healths[i][1], strung.health>>]
         IN  IF strung.raised # ""
             THEN [proxy_health |-> stored, raised |-> strung.raised]
             ELSE serialize_health(stored, i + 1)

\* json.dump(..., default=str) of the site entries: a datetime is written as
\* str(datetime)
dumped_site_performance ==
    [url \in DOMAIN site_proxy_performance |->
        [proxy \in DOMAIN site_proxy_performance[url] |->
            [site_proxy_performance[url][proxy] EXCEPT
                !.last_used = IF truthy(@) THEN isoformat(@) ELSE @]]]

\* save_state(filepath)
save_state ==
    LET serialized == serialize_health(proxy_health, 1)
        call == Call("save_state", "", "", "", None, None)
    IN  /\ proxy_health' = serialized.proxy_health
        /\ IF serialized.raised # ""
           THEN /\ ret' = Raise(call, serialized.raised)
                /\ UNCHANGED state_file
           ELSE /\ ret' = call
                /\ state_file' =
                       [exists |-> TRUE, proxy_health |-> serialized.proxy_health,
                        site_proxy_performance |-> dumped_site_performance,
                        total_cost |-> total_cost]
        /\ UNCHANGED <<proxy_pools, site_proxy_performance, total_cost,
                       proxy_request, now, response, detector_vars>>

\* datetime.fromisoformat(string): the datetime the string was written from
fromisoformat_unparsed(string) == string

fromisoformat(string) == [type |-> "datetime", at |-> string.at]

\* what load_state makes of one health entry it read: blocked_sites a set
\* again, and every time that is set parsed
loaded_health(health) ==
    [health EXCEPT
        !.blocked_sites.type = "set",
        !.last_used = IF truthy(@) THEN fromisoformat(@) ELSE @,
        !.last_success = IF truthy(@) THEN fromisoformat(@) ELSE @,
        !.last_failure = IF truthy(@) THEN fromisoformat(@) ELSE @]

\* the loop of load_state over state['proxy_health'].items()
RECURSIVE restore_health(_, _, _)
restore_health(healths, saved, i) ==
    IF i > Len(saved) THEN healths
    ELSE restore_health(dict_put(healths, saved[i][1], loaded_health(saved[i][2])),
                        saved, i + 1)

\* the loop of load_state over state['site_proxy_performance'].items()
restore_site_performance(site_perfs, saved) ==
    [url \in DOMAIN site_perfs |->
        [proxy \in DOMAIN site_perfs[url] |->
            IF url \in DOMAIN saved /\ proxy \in DOMAIN saved[url]
            THEN [saved[url][proxy] EXCEPT
                     !.last_used = IF truthy(@) THEN fromisoformat(@) ELSE @]
            ELSE site_perfs[url][proxy]]]

\* load_state(filepath)
load_state ==
    /\ ret' = Call("load_state", "", "", "", None, None)
    /\ IF ~state_file.exists
       THEN UNCHANGED <<proxy_health, site_proxy_performance, total_cost>>
       ELSE /\ proxy_health' = restore_health(proxy_health, state_file.proxy_health, 1)
            /\ site_proxy_performance' =
                   restore_site_performance(site_proxy_performance,
                                            state_file.site_proxy_performance)
            /\ total_cost' = state_file.total_cost
    /\ UNCHANGED <<proxy_pools, state_file, proxy_request, now, response,
                   detector_vars>>

\* a new process constructs the manager, and its caller fills the pools with
\* the proxies it filled them with before
construct_manager ==
    /\ proxy_health' = <<>>
    /\ site_proxy_performance' =
           [url \in Urls |-> [proxy \in Proxies |-> fresh_site_perf]]
    /\ total_cost' = 0
    /\ ret' = Call("__init__", "", "", "", None, None)
    /\ UNCHANGED <<proxy_pools, state_file, proxy_request, now, response,
                   detector_vars>>

(* ------------------ specification of the proxy manager ----------------- *)
\* strategy names a caller passes: the six registered ones and an unknown one
Strategies == rotation_strategies \cup {"fastest"}

\* requirement dicts a caller passes: none, and one for each key
RequirementSets ==
    {no_requirements,
     [no_requirements EXCEPT !.proxy_type = "mobile"],
     [no_requirements EXCEPT !.avoid_datacenter = TRUE],
     [no_requirements EXCEPT !.min_success_rate = 80],
     [no_requirements EXCEPT !.max_response_time = 5],
     [no_requirements EXCEPT !.geo = "DE"]}

ProxyRequests == [strategy : Strategies, requirements : RequirementSets]

\* what a caller reports of one fetch: (success, response_time, error)
ReportedResults ==
    {<<TRUE, 9, "">>, <<FALSE, 0, "Blocked by target">>, <<FALSE, 0, "timeout">>}

\* the pools as callers fill them: nothing loaded, or one proxy of each of two
\* classes
FilledPools ==
    {[t \in {pool_types[i] : i \in DOMAIN pool_types} |-> <<>>],
     [t \in {pool_types[i] : i \in DOMAIN pool_types} |->
         CASE t = "residential" -> <<1>> [] t = "datacenter" -> <<2>> [] OTHER -> <<>>]}

\* the selections made so far, over all proxies
RECURSIVE requests_made(_, _)
requests_made(healths, i) ==
    IF i > Len(healths) THEN 0
    ELSE healths[i][2].total_requests + requests_made(healths, i + 1)

\* the results reported so far, over all proxies
RECURSIVE results_reported(_, _)
results_reported(healths, i) ==
    IF i > Len(healths) THEN 0
    ELSE healths[i][2].success_count + healths[i][2].failure_count
             + results_reported(healths, i + 1)

InitProxy ==
    /\ detector_constructed
    /\ proxy_pools \in FilledPools
    /\ proxy_health = <<>>
    /\ site_proxy_performance = [url \in Urls |-> [proxy \in Proxies |-> fresh_site_perf]]
    /\ total_cost = 0
    /\ state_file = no_file
    /\ proxy_request \in ProxyRequests
    /\ now = Epoch
    /\ response = NoResponse
    /\ callers_idle
    /\ ret = NoCall

NextProxy ==
    \/ \E url \in Urls :
          /\ requests_made(proxy_health, 1) < MaxSelections
          /\ GetOptimalProxy(url)
          /\ UNCHANGED callers
    \/ \E proxy \in Proxies, url \in Urls, result \in ReportedResults :
          /\ results_reported(proxy_health, 1) < MaxReports
          /\ \E i \in DOMAIN get_all_proxies : get_all_proxies[i] = proxy
          /\ ReportProxyResult(proxy, url, result[1], result[2], result[3])
          /\ UNCHANGED callers
    \/ /\ ~state_file.exists
       /\ save_state
       /\ UNCHANGED callers
    \/ Tick /\ UNCHANGED callers

SpecProxy == InitProxy /\ [][NextProxy]_vars

(* ------- specification of the selection strategies and the file ------- *)
\* a page of another site
other_url == "https://other.example/page"

\* what a pooled proxy has been through before: handed out once if at all,
\* with the results of its fetches reported: here successes for the page of
\* Urls, each with a response time of 2 seconds, and successes and failures
\* for the page of the other site, the failures blocked by the target or not
Pasts ==
    {[here |-> 0, successes |-> 0, failures |-> 0, blocked |-> FALSE],
     [here |-> 1, successes |-> 0, failures |-> 0, blocked |-> FALSE],
     [here |-> 0, successes |-> 1, failures |-> 9, blocked |-> FALSE],
     [here |-> 0, successes |-> 0, failures |-> 1, blocked |-> TRUE]}

was_used(past) == past.here + past.successes + past.failures > 0

\* the health entry such a past leaves
past_health(past) ==
    LET at_epoch == [type |-> "datetime", at |-> Epoch]
        counted == [fresh_health EXCEPT
                       !.success_count = past.here + past.successes,
                       !.failure_count = past.failures,
                       !.total_requests = 1,
                       !.avg_response_time = IF past.here > 0 THEN <<2>> ELSE <<>>,
                       !.last_used = at_epoch,
                       !.last_success = IF past.here + past.successes > 0
                                        THEN at_epoch ELSE no_time,
                       !.last_failure = IF past.failures > 0 THEN at_epoch ELSE no_time,
                       !.blocked_sites.items = IF past.blocked THEN {other_url} ELSE {}]
    IN  [counted EXCEPT !.success_rate = success_rate_of(counted)]

\* the site entry such a past leaves
past_site_perf(past) ==
    IF past.here = 0 THEN fresh_site_perf
    ELSE [success_rate |-> ONE, avg_response_time |-> 2 * ONE,
          last_used |-> [type |-> "datetime", at |-> Epoch],
          success_count |-> past.here, total_count |-> past.here]

\* the strategies whose choice is computed, and the weighted draw
SelectRequests ==
    [strategy : {"round_robin", "least_used", "best_performing", "weighted_random"},
     requirements : {no_requirements}]

InitSelect ==
    /\ detector_constructed
    /\ proxy_pools = [t \in {pool_types[i] : i \in DOMAIN pool_types} |->
                         CASE t = "residential" -> <<1>>
                           [] t = "datacenter" -> <<2>>
                           [] OTHER -> <<>>]
    /\ \E past \in [Proxies -> Pasts] :
          /\ proxy_health =
                 SelectSeq([p \in Proxies |-> <<p, past_health(past[p])>>],
                           LAMBDA entry : was_used(past[entry[1]]))
          /\ site_proxy_performance =
                 [url \in Urls |-> [p \in Proxies |-> past_site_perf(past[p])]]
          /\ total_cost = (IF was_used(past[1]) THEN cost_of(1) ELSE 0)
                              + (IF was_used(past[2]) THEN cost_of(2) ELSE 0)
    /\ state_file = no_file
    /\ proxy_request \in SelectRequests
    /\ now \in {Epoch + cooldown - 1, Epoch + cooldown}
    /\ response = NoResponse
    /\ callers_idle
    /\ ret = NoCall

\* a manager constructed where a state file lies loads it before it hands out
\* a proxy
NextSelect ==
    \/ \E url \in Urls :
          /\ requests_made(proxy_health, 1) < Len(proxy_catalog) + MaxSelections
          /\ state_file.exists => proxy_health # <<>>
          /\ GetOptimalProxy(url)
          /\ UNCHANGED callers
    \/ /\ ~state_file.exists
       /\ save_state
       /\ UNCHANGED callers
    \/ /\ state_file.exists /\ proxy_health # <<>>
       /\ construct_manager
       /\ UNCHANGED callers
    \/ load_state /\ UNCHANGED callers

SpecSelect == InitSelect /\ [][NextSelect]_vars

(* -------- specification of two workers sharing the proxy manager ------- *)
\* get_optimal_proxy takes no lock.  A worker runs it in two steps, and the
\* other worker may run between them: lines 160-174, the filter, the fallback
\* and the strategy, and lines 177-180, the usage update and the return.

\* lines 160-174 run by worker w; a call that raises or finds every pool empty
\* ends here
select_proxy(w, url, strategy, requirements) ==
    LET scan == filter_proxies(requirements)
        available_proxies == IF scan.filtered # <<>> THEN scan.filtered
                             ELSE get_all_proxies
        call == Call("get_optimal_proxy", url, "", strategy, requirements, None)
        chosen == strategy_func(strategy, available_proxies, url, scan.proxy_health)
    IN  /\ workers[w].pc \in {"idle", "returned"}
        /\ IF scan.raised # ""
           THEN /\ proxy_health' = scan.proxy_health
                /\ ret' = Raise(call, scan.raised)
                /\ workers' = [workers EXCEPT ![w] = idle_worker]
           ELSE IF available_proxies = <<>>
           THEN /\ proxy_health' = scan.proxy_health
                /\ ret' = call
                /\ workers' = [workers EXCEPT ![w] = idle_worker]
           ELSE IF chosen.raised # ""
           THEN /\ proxy_health' = chosen.proxy_health
                /\ ret' = Raise(call, chosen.raised)
                /\ workers' = [workers EXCEPT ![w] = idle_worker]
           ELSE \E selected_proxy \in chosen.picks :
                   /\ proxy_health' = chosen.proxy_health
                   /\ workers' = [workers EXCEPT ![w] =
                          [pc |-> "selected", url |-> url,
                           available_proxies |-> available_proxies,
                           filtered |-> scan.filtered # <<>>,
                           selected_proxy |-> selected_proxy]]
                   /\ UNCHANGED ret
        /\ UNCHANGED <<proxy_pools, site_proxy_performance, total_cost, state_file,
                       proxy_request, now, response, detector_vars, scraper>>

\* lines 177-180 run by worker w: _update_proxy_usage and the return
use_proxy(w) ==
    LET selected_proxy == workers[w].selected_proxy
    IN  /\ workers[w].pc = "selected"
        /\ proxy_health' = update_proxy_usage(proxy_health, selected_proxy)
        /\ total_cost' = total_cost + cost_of(selected_proxy)
        /\ workers' = [workers EXCEPT ![w].pc = "returned"]
        /\ ret' = Call("get_optimal_proxy", workers[w].url, "", proxy_request.strategy,
                       proxy_request.requirements, selected_proxy)
        /\ UNCHANGED <<proxy_pools, site_proxy_performance, state_file,
                       proxy_request, now, response, detector_vars, scraper>>

\* the workers that have selected a proxy and not yet counted its use
selecting == {w \in Workers : workers[w].pc = "selected"}

InitRace ==
    /\ detector_constructed
    /\ proxy_pools = [t \in {pool_types[i] : i \in DOMAIN pool_types} |->
                         CASE t = "residential" -> <<1>>
                           [] t = "datacenter" -> <<2>>
                           [] OTHER -> <<>>]
    /\ proxy_health = <<>>
    /\ site_proxy_performance = [url \in Urls |-> [proxy \in Proxies |-> fresh_site_perf]]
    /\ total_cost = 0
    /\ state_file = no_file
    /\ proxy_request \in ProxyRequests
    /\ now = Epoch
    /\ response = NoResponse
    /\ callers_idle
    /\ ret = NoCall

NextRace ==
    \E w \in Workers :
        \/ \E url \in Urls :
              /\ requests_made(proxy_health, 1) + Cardinality(selecting) < MaxSelections
              /\ select_proxy(w, url, proxy_request.strategy, proxy_request.requirements)
        \/ use_proxy(w)

SpecRace == InitRace /\ [][NextRace]_vars

(* ------------------------------ Scrape Loop ---------------------------- *)
\* UltraAdvancedScraper.scrape(url) with its defaults: ban detection enabled,
\* use_proxy True.  DNS resolution, timing jitter, the referrer chain and the
\* fetch itself take no time on the model's clock; the only sleep between a
\* recorded ban and the gate of the retry is the one of execute_recovery.

\* urlparse(url).netloc
netloc(url) == CASE url = "https://example.com/page" -> "example.com"

\* "confidence > 0.7", in hundredths
ban_confidence_threshold == 70

\* what the fetch of step 6 returns: result['success'], and the html, status
\* code and headers detect_ban is handed (those of NoResponse when the fetch
\* failed and the result holds an error only)
\* a page served with status 200 whose text matches enough patterns of one
\* category for the confidence to pass the threshold
page_matching(category) ==
    [NoResponse EXCEPT !.status_code = 200,
                       !.html_content.matches[category] = saturating_matches - 1]

FetchOutcomes ==
    {[success |-> TRUE, response |-> [NoResponse EXCEPT !.status_code = 200]],
     [success |-> TRUE, response |-> [NoResponse EXCEPT !.status_code = 429]],
     [success |-> TRUE, response |-> [NoResponse EXCEPT !.status_code = 403]],
     [success |-> TRUE, response |-> [NoResponse EXCEPT !.status_code = 503]],
     [success |-> TRUE, response |-> page_matching("behavioral")],
     [success |-> TRUE, response |-> page_matching("captcha")],
     [success |-> FALSE, response |-> NoResponse]}

\* lines 98-119: a call of scrape, by a caller or by line 187, up to the gate
\* of step 2, where it returns at once for a domain should_proceed refuses
scrape_enter(url) ==
    LET domain == netloc(url)
        entered == [scraper EXCEPT
                       !.stats.total_requests = @ + 1,
                       !.depth = IF scraper.pc = "idle" THEN 1 ELSE @ + 1,
                       !.url = url, !.proxy = None, !.result = "None",
                       !.ban_type = "none"]
    IN  /\ scraper.pc \in {"idle", "retry"}
        /\ scraper.pc = "idle" => scraper.stats.total_requests < MaxScrapes
        /\ scraper.pc = "retry" => url = scraper.url
        /\ IF should_proceed(domain)
           THEN /\ scraper' = [entered EXCEPT !.pc = "select"]
                /\ ret' = Call("should_proceed", domain, "", "", None, TRUE)
           ELSE /\ scraper' = [entered EXCEPT !.pc = "idle"]
                /\ ret' = Call("scrape", url, "", "", None,
                               "Domain blocked due to poor health")
        /\ UNCHANGED <<detector_vars, now, outside_detector, workers>>

\* lines 131-140: step 5, the proxy for the fetch
scrape_select ==
    /\ scraper.pc = "select"
    /\ get_optimal_proxy(scraper.url, "ml_optimized", no_requirements)
    /\ scraper' =
           IF ret.raised' # "" THEN [scraper EXCEPT !.pc = "idle"]
           ELSE [scraper EXCEPT
                    !.pc = "fetch",
                    !.proxy = ret.result',
                    !.stats.proxies_rotated = IF ret.result' # None THEN @ + 1 ELSE @]
    /\ UNCHANGED <<proxy_pools, site_proxy_performance, state_file, proxy_request,
                   now, response, detector_vars, workers>>

\* lines 142-154: step 6, the fetch
scrape_fetch ==
    /\ scraper.pc = "fetch"
    /\ \E outcome \in FetchOutcomes :
          /\ response' = outcome.response
          /\ scraper' = [scraper EXCEPT
                            !.pc = "detect",
                            !.result = IF outcome.success THEN "succeeded"
                                       ELSE "failed"]
          /\ ret' = Call("fetch", scraper.url, "", "", scraper.proxy,
                         IF outcome.success THEN "succeeded" ELSE "failed")
    /\ UNCHANGED <<detector_vars, now, proxy_vars, workers>>

\* lines 157-167: detect_ban on the result, and record_ban for a ban whose
\* confidence is above 0.7
scrape_detect ==
    LET verdict == detect_ban(response.html_content, response.status_code,
                              response.headers)
    IN  /\ scraper.pc = "detect"
        /\ IF verdict.ban_type # "none" /\ verdict.confidence > ban_confidence_threshold
           THEN /\ record_ban(netloc(scraper.url), verdict.ban_type, None)
                /\ scraper' = [scraper EXCEPT
                                  !.pc = "recover",
                                  !.ban_type = verdict.ban_type,
                                  !.stats.bans_detected = @ + 1]
           ELSE /\ scraper' = [scraper EXCEPT !.pc = "update"]
                /\ ret' = Call("detect_ban", "", "", "", response, verdict)
                /\ UNCHANGED <<detector_vars, now, outside_detector>>
        /\ UNCHANGED workers

\* lines 170-175: the strategy get_recovery_strategy chooses is carried out
scrape_recover ==
    LET domain == netloc(scraper.url)
        recovery_strategy == get_recovery_strategy(domain, scraper.ban_type)
    IN  /\ scraper.pc = "recover"
        /\ \E jitter \in JitterDraws :
              execute_recovery(domain, scraper.ban_type, recovery_strategy, jitter)
        /\ scraper' = [scraper EXCEPT !.pc =
               IF ~ret.result.success' THEN "update"
               ELSE IF "rotate_proxy" \in ret.result.new_config' THEN "rotate"
               ELSE "retry"]
        /\ UNCHANGED workers

\* lines 177-178: a new proxy for the retry
scrape_rotate ==
    /\ scraper.pc = "rotate"
    /\ get_optimal_proxy(scraper.url, "ml_optimized", no_requirements)
    /\ scraper' =
           IF ret.raised' # "" THEN [scraper EXCEPT !.pc = "idle"]
           ELSE [scraper EXCEPT !.pc = "retry", !.proxy = ret.result']
    /\ UNCHANGED <<proxy_pools, site_proxy_performance, state_file, proxy_request,
                   now, response, detector_vars, workers>>

\* lines 189-195: step 8
scrape_update ==
    /\ scraper.pc = "update"
    /\ update_reputation(netloc(scraper.url), scraper.result = "succeeded")
    /\ scraper' = [scraper EXCEPT
                      !.pc = "statistics",
                      !.stats.successful_requests =
                          IF scraper.result = "succeeded" THEN @ + 1 ELSE @,
                      !.stats.failed_requests =
                          IF scraper.result = "succeeded" THEN @ ELSE @ + 1]
    /\ UNCHANGED workers

\* lines 198-199: step 9.  The result of a fetch is never empty, and
\* get_statistics (line 565) calls self.proxy_manager.get_statistics(), a
\* method SmartProxyManager does not have: the call of scrape ends with
\* AttributeError.
scrape_statistics ==
    /\ scraper.pc = "statistics"
    /\ scraper' = [scraper EXCEPT !.pc = "idle"]
    /\ ret' = Raise(Call("scrape", scraper.url, "", "", None, None), "AttributeError")
    /\ UNCHANGED <<detector_vars, now, outside_detector, workers>>

(* -------------------- specification of the scrape loop ----------------- *)
\* scrape calls made before, with use_proxy=False: each met a 429, recovered
\* by waiting less than a minute and was refused at the gate of its retry
PriorRecoveries == {0, 4}

RECURSIVE after_bans(_, _)
after_bans(reputation, n) ==
    IF n = 0 THEN reputation
    ELSE after_bans([reputation EXCEPT
                        !.bans = @ + 1,
                        !.last_ban = Epoch,
                        !.reputation_score = decay_on_ban(@)], n - 1)

InitScrape ==
    /\ \E n \in PriorRecoveries :
          /\ ban_history =
                 [d \in Domains |->
                     [i \in 1..n |-> [type |-> "rate_limit", retry_after |-> None]]]
          /\ recovery_attempts = [d \in Domains |-> n]
          /\ successful_recoveries =
                 [d \in Domains |->
                     [i \in 1..n |-> [ban_type |-> "rate_limit", strategy |-> "wait"]]]
          /\ domain_reputation = [d \in Domains |-> after_bans(fresh_reputation, n)]
    /\ proxy_pools \in FilledPools
    /\ proxy_health = <<>>
    /\ site_proxy_performance = [url \in Urls |-> [proxy \in Proxies |-> fresh_site_perf]]
    /\ total_cost = 0
    /\ state_file = no_file
    /\ proxy_request = [strategy |-> "ml_optimized", requirements |-> no_requirements]
    /\ now \in {Epoch + ban_cooldown - 1, Epoch + ban_cooldown}
    /\ response = NoResponse
    /\ callers_idle
    /\ ret = NoCall

\* a step of the scrape call that is running
ScrapeRuns ==
    \/ /\ scraper.pc = "retry"
       /\ scrape_enter(scraper.url)
    \/ scrape_select
    \/ scrape_fetch
    \/ scrape_detect
    \/ scrape_recover
    \/ scrape_rotate
    \/ scrape_update
    \/ scrape_statistics

NextScrape ==
    \/ /\ scraper.pc = "idle"
       /\ \E url \in Urls : scrape_enter(url)
    \/ ScrapeRuns

SpecScrape == InitScrape /\ [][NextScrape]_vars

\* a call that has started runs on: scrape has no step that waits for another
\* thread
SpecScrapeFair == SpecScrape /\ WF_vars(ScrapeRuns)

(* ------------------ specification of the proxy cleanup ----------------- *)
\* what a proxy has been through before cleanup is looked at: handed out
\* requests times, the last time just now, and every fetch reported without a
\* response time, all of them failed ("timeout") or all of them successful
PriorUsage == [requests : {enough_attempts - 1, enough_attempts}, success : BOOLEAN]

\* the health entry such a past leaves
used_health(usage) ==
    [fresh_health EXCEPT
        !.total_requests = usage.requests,
        !.success_count = IF usage.success THEN usage.requests ELSE 0,
        !.failure_count = IF usage.success THEN 0 ELSE usage.requests,
        !.last_used = [type |-> "datetime", at |-> Epoch],
        !.last_success = IF usage.success THEN [type |-> "datetime", at |-> Epoch]
                         ELSE no_time,
        !.last_failure = IF usage.success THEN no_time
                         ELSE [type |-> "datetime", at |-> Epoch],
        !.success_rate = IF usage.success THEN 100 * ONE ELSE 0]

\* the site entry such a past leaves
used_site_perf(usage) ==
    [fresh_site_perf EXCEPT
        !.last_used = [type |-> "datetime", at |-> Epoch],
        !.success_count = IF usage.success THEN usage.requests ELSE 0,
        !.total_count = IF usage.success THEN usage.requests ELSE 0,
        !.success_rate = IF usage.success THEN ONE ELSE 0]

\* failure_threshold values handed to cleanup_failed_proxies, in hundredths:
\* the default 0.3, and 1.0
Thresholds == {30, 100}

InitCleanup ==
    /\ detector_constructed
    /\ proxy_pools = [t \in {pool_types[i] : i \in DOMAIN pool_types} |->
                         CASE t = "residential" -> <<1>>
                           [] t = "datacenter" -> <<2>>
                           [] OTHER -> <<>>]
    /\ \E usage \in [Proxies -> PriorUsage] :
          /\ proxy_health = [p \in Proxies |-> <<p, used_health(usage[p])>>]
          /\ site_proxy_performance =
                 [url \in Urls |-> [p \in Proxies |-> used_site_perf(usage[p])]]
          /\ total_cost = usage[1].requests * cost_of(1) + usage[2].requests * cost_of(2)
    /\ state_file = no_file
    /\ proxy_request = [strategy |-> "ml_optimized", requirements |-> no_requirements]
    /\ now = Epoch
    /\ response = NoResponse
    /\ callers_idle
    /\ ret = NoCall

NextCleanup ==
    \/ \E url \in Urls :
          /\ requests_made(proxy_health, 1) <
                 Len(proxy_catalog) * enough_attempts + MaxExtraRequests
          /\ GetOptimalProxy(url)
          /\ UNCHANGED callers
    \/ \E failure_threshold \in Thresholds :
          /\ cleanup_failed_proxies(failure_threshold)
          /\ UNCHANGED callers

SpecCleanup == InitCleanup /\ [][NextCleanup]_vars

(* ======================= properties: reputation store ================== *)
\* the condition under which get_recovery_strategy abandons a domain
Abandoned(domain) ==
    \/ domain_reputation[domain].reputation_score < reputation_threshold
    \/ domain_reputation[domain].bans > ban_threshold

\* the domain's last ban was recorded less than 60 seconds ago
BannedRecently(domain) ==
    /\ domain_reputation[domain].last_ban # None
    /\ now - domain_reputation[domain].last_ban < ban_cooldown

\* the step that just completed was reset_domain(domain)
WasReset(domain) == ret.op = "reset_domain" /\ ret.domain = domain

\* C1: should_proceed(domain) returns false exactly when the score is below 0.3,
\* or bans exceed 10, or the last ban is less than 60 seconds old, and true in
\* every other state.
C1_ShouldProceedExact ==
    \A d \in Domains :
        (ret.op = "should_proceed" /\ ret.domain = d) =>
            (ret.result = FALSE <=> (Abandoned(d) \/ BannedRecently(d)))

\* should_proceed returned true for a domain whose last ban is a minute old
C1_Witness ==
    \E d \in Domains :
        /\ ret.op = "should_proceed" /\ ret.domain = d /\ ret.result = TRUE
        /\ domain_reputation[d].last_ban # None
        /\ domain_reputation[d].bans >= 1

\* C2: once a domain is abandoned, no call other than reset_domain and no
\* passage of time makes should_proceed true again or makes
\* get_recovery_strategy return anything but ABANDON.
C2_AbandonedIsTerminal ==
    [][\A d \in Domains :
          (Abandoned(d) /\ ~WasReset(d)') =>
              /\ ~should_proceed(d)'
              /\ \A bt \in BanType : get_recovery_strategy(d, bt)' = "abandon"]_vars

\* C3: after 11 bans with no reset in between, should_proceed is false and it
\* stays false, whatever is called and however much time passes, until
\* reset_domain.
C3_ElevenBansBlock ==
    [][\A d \in Domains :
          /\ domain_reputation[d].bans' >= 11 =>
                /\ ~should_proceed(d)'
                /\ (ret.op' = "should_proceed" /\ ret.domain' = d) => ret.result' = FALSE
          /\ (domain_reputation[d].bans >= 11 /\ ~WasReset(d)') =>
                domain_reputation[d].bans' >= 11]_vars

\* should_proceed was asked a minute after the 11th ban, the score still above
\* the reputation threshold, and said no
C3_Witness ==
    \E d \in Domains :
        /\ ret.op = "should_proceed" /\ ret.domain = d /\ ret.result = FALSE
        /\ domain_reputation[d].bans = 11
        /\ domain_reputation[d].reputation_score >= reputation_threshold
        /\ ~BannedRecently(d)

\* C4: every domain's reputation_score lies in [0, 1].
C4_ScoreInUnitInterval ==
    \A d \in Domains :
        /\ domain_reputation[d].reputation_score >= 0
        /\ domain_reputation[d].reputation_score <= ONE

\* a successful request met the cap: the score is 1.0 after it
C4_Witness ==
    \E d \in Domains :
        /\ ret.op = "update_reputation" /\ ret.domain = d /\ ret.arg = TRUE
        /\ domain_reputation[d].reputation_score = ONE

PastStrategies(domain, ban_type) ==
    {successful_recoveries[domain][i].strategy :
        i \in {j \in 1..Len(successful_recoveries[domain]) :
                  successful_recoveries[domain][j].ban_type = ban_type}}

\* first entry of the ban type's preference list, WAIT when it has no list
FirstPreference(ban_type) ==
    IF ban_type \in DOMAIN recovery_strategies
    THEN Head(recovery_strategies[ban_type])
    ELSE "wait"

\* C6: get_recovery_strategy returns ABANDON if the score is below 0.3 or bans
\* exceed 10; otherwise the strategy of a recorded successful recovery from that
\* exact ban type if there is one; otherwise the first entry of the ban type's
\* preference list (WAIT when the ban type has no list).
C6_StrategyChoice ==
    \A d \in Domains :
        (ret.op = "get_recovery_strategy" /\ ret.domain = d) =>
            IF Abandoned(d) THEN ret.result = "abandon"
            ELSE IF PastStrategies(d, ret.ban_type) # {}
                 THEN ret.result \in PastStrategies(d, ret.ban_type)
                 ELSE ret.result = FirstPreference(ret.ban_type)

\* a healthy domain was given a reused strategy that is not the ban type's first
\* preference, although a recovery from another ban type was recorded first
C6_Witness ==
    \E d \in Domains :
        /\ ret.op = "get_recovery_strategy" /\ ret.domain = d
        /\ ~Abandoned(d)
        /\ Len(successful_recoveries[d]) = 2
        /\ successful_recoveries[d][1].ban_type # ret.ban_type
        /\ ret.result # FirstPreference(ret.ban_type)
        /\ ret.result # "abandon"

JitterRange == 0..base_wait_time

\* the retry_after values carried by the domain's 5 most recent ban events
RecentRetryAfter(domain) ==
    {ban_history[domain][i].retry_after :
        i \in {j \in 1..Len(ban_history[domain]) :
                  /\ j > Len(ban_history[domain]) - 5
                  /\ ban_history[domain][j].retry_after # None}}

SetMax(S) == CHOOSE x \in S : \A y \in S : y <= x

\* the wait a completed call computed, None if the call computed none
ComputedWait ==
    IF ret.op = "calculate_wait_time" THEN ret.result
    ELSE IF ret.op = "execute_recovery" /\ ret.strategy = "wait"
         THEN ret.result.wait_time
         ELSE None

\* C8: calculate_wait_time never returns more than max_wait_time (300 seconds),
\* for every attempt, jitter draw and ban history, retry_after values above 300
\* included.
C8_WaitNeverAboveMax ==
    /\ ComputedWait # None => ComputedWait <= max_wait_time
    /\ \A d \in Domains, attempt \in 0..MaxBackoffAttempt, jitter \in JitterRange :
          calculate_wait_time(ban_history[d], attempt, jitter) <= max_wait_time

\* the cap was met by a history whose recent events carry a retry_after above it
C8_Witness ==
    \E d \in Domains :
        /\ ret.op = "calculate_wait_time" /\ ret.domain = d
        /\ ret.result = max_wait_time
        /\ ret.arg = 0
        /\ \E r \in RecentRetryAfter(d) : r > max_wait_time

\* C9: for a fixed ban history and attempts a < b, every value
\* calculate_wait_time can return for b is at least every value it can return
\* for a, over all jitter draws in [0, base_wait_time].
C9_BackoffNonDecreasing ==
    \A d \in Domains :
        LET returns == [attempt \in 0..MaxBackoffAttempt |->
                          {calculate_wait_time(ban_history[d], attempt, jitter) :
                              jitter \in JitterRange}]
        IN  \A a \in 0..MaxBackoffAttempt, b \in 0..MaxBackoffAttempt :
                a < b => \A wa \in returns[a], wb \in returns[b] : wb >= wa

\* the backoff of attempt 1 with the least jitter was computed on a history
\* without retry_after: it equals the backoff of attempt 0 with the most jitter
C9_Witness ==
    \E d \in Domains :
        /\ ret.op = "calculate_wait_time" /\ ret.domain = d /\ ret.arg = 1
        /\ Len(ban_history[d]) >= 1
        /\ RecentRetryAfter(d) = {}
        /\ ret.result = calculate_wait_time(ban_history[d], 0, base_wait_time)
        /\ ret.result < calculate_wait_time(ban_history[d], 2, 0)

\* C10 as stated: the wait computed is at least the largest retry_after carried
\* by the domain's 5 most recent ban events.
C10_WaitAtLeastRetryAfter ==
    \A d \in Domains :
        (ComputedWait # None /\ ret.domain = d /\ RecentRetryAfter(d) # {}) =>
            ComputedWait >= SetMax(RecentRetryAfter(d))

\* C10 amended: the wait computed is at least the smaller of max_wait_time and
\* the largest retry_after carried by the domain's 5 most recent ban events.
C10_WaitAtLeastCappedRetryAfter ==
    \A d \in Domains :
        (ComputedWait # None /\ ret.domain = d /\ RecentRetryAfter(d) # {}) =>
            ComputedWait >= Min(SetMax(RecentRetryAfter(d)), max_wait_time)

\* a short backoff was raised to the retry_after of the oldest of the 5 most
\* recent events, while an older event carrying a larger one was left out
C10_Witness ==
    \E d \in Domains :
        /\ ComputedWait # None /\ ret.domain = d
        /\ Len(ban_history[d]) = 6
        /\ ban_history[d][1].retry_after = 400
        /\ ban_history[d][2].retry_after = 30
        /\ RecentRetryAfter(d) = {30}
        /\ ComputedWait = 30

(* ========================= properties: ban classifier ================== *)
\* the lowered names of the headers handed to the detect_ban call in ret
GivenHeaders == headers_lower(ret.arg.headers)

\* the call in ret carried retry-after, or x-ratelimit-remaining equal to 0
RateLimitHeaderGiven ==
    \/ "retry-after" \in GivenHeaders
    \/ "x-ratelimit-remaining" \in GivenHeaders /\ ret.arg.headers.remaining = "0"

\* the body of the call in ret matches no pattern and holds no error marker
EmptyBodyGiven ==
    /\ \A c \in DOMAIN ban_patterns : ret.arg.html_content.matches[c] = 0
    /\ ~ret.arg.html_content.error_indicator

\* C11: detect_ban with status_code 429 returns exactly (RATE_LIMIT, 0.95),
\* whatever the body matches (nothing, or patterns of any category).
C11_Status429IsRateLimit ==
    (ret.op = "detect_ban" /\ ret.arg.status_code = 429) =>
        ret.result = [ban_type |-> "rate_limit", confidence |-> 95]

\* a 429 whose body matches four IP_BAN patterns and an error marker was
\* classified RATE_LIMIT 0.95
C11_Witness ==
    /\ ret.op = "detect_ban" /\ ret.arg.status_code = 429
    /\ ret.arg.html_content.matches["ip_ban"] >= saturating_matches
    /\ ret.arg.html_content.error_indicator
    /\ ret.result = [ban_type |-> "rate_limit", confidence |-> 95]

\* C12: with a retry-after header, or x-ratelimit-remaining equal to 0,
\* detect_ban returns RATE_LIMIT with confidence 0.95 or 0.99 for every status
\* code and body; with retry-after alone and an empty body it returns exactly
\* (RATE_LIMIT, 0.95).
C12_RateLimitHeadersWin ==
    (ret.op = "detect_ban" /\ RateLimitHeaderGiven) =>
        /\ ret.result.ban_type = "rate_limit"
        /\ ret.result.confidence \in {95, 99}
        /\ (GivenHeaders = {"retry-after"} /\ EmptyBodyGiven) =>
               ret.result = [ban_type |-> "rate_limit", confidence |-> 95]

\* a 503 with retry-after as its only rate limit header, whose body matches
\* four CAPTCHA patterns, was classified RATE_LIMIT 0.95
C12_Witness ==
    /\ ret.op = "detect_ban" /\ ret.arg.status_code = 503
    /\ "retry-after" \in GivenHeaders
    /\ "x-ratelimit-remaining" \notin GivenHeaders
    /\ ret.arg.html_content.matches["captcha"] >= saturating_matches
    /\ ret.result = [ban_type |-> "rate_limit", confidence |-> 95]

\* C13: detect_ban with status_code 403 and no rate limit header returns IP_BAN
\* with confidence >= 0.8 for every body in which no category other than IP_BAN
\* matches three or more of its patterns.
C13_Status403IsIpBan ==
    (/\ ret.op = "detect_ban" /\ ret.arg.status_code = 403
     /\ ~RateLimitHeaderGiven
     /\ \A c \in DOMAIN ban_patterns \ {"ip_ban"} :
            ret.arg.html_content.matches[c] < 3) =>
        /\ ret.result.ban_type = "ip_ban"
        /\ ret.result.confidence >= 80

\* a 403 whose body matches two IP_BAN patterns ("Access Denied - Your IP has
\* been blocked") and two CAPTCHA patterns was classified IP_BAN 0.8
C13_Witness ==
    /\ ret.op = "detect_ban" /\ ret.arg.status_code = 403
    /\ ~RateLimitHeaderGiven
    /\ ret.arg.html_content.matches["ip_ban"] = 2
    /\ ret.arg.html_content.matches["captcha"] = 2
    /\ ret.result = [ban_type |-> "ip_ban", confidence |-> 80]

\* C14: with a cf-ray header, no rate limit header, and no status prior, body
\* category or error marker of confidence 0.6 or more, detect_ban returns
\* CLOUDFLARE with confidence >= 0.6, a weaker body match notwithstanding.
C14_CloudflareHeaderFloor ==
    (/\ ret.op = "detect_ban"
     /\ "cf-ray" \in GivenHeaders
     /\ "retry-after" \notin GivenHeaders
     /\ "x-ratelimit-remaining" \notin GivenHeaders
     /\ status_prior(ret.arg.status_code).verdict.confidence < 60
     /\ \A c \in DOMAIN ban_patterns :
            pattern_confidence(ret.arg.html_content.matches[c]) < 60
     /\ ~ret.arg.html_content.error_indicator) =>
        /\ ret.result.ban_type = "cloudflare"
        /\ ret.result.confidence >= 60

\* the call in ret carried no signal at all
NoSignalGiven ==
    /\ ret.arg.status_code = None \/ ret.arg.status_code < 400
    /\ EmptyBodyGiven
    /\ GivenHeaders \cap {"cf-ray", "cf-cache-status", "x-ratelimit-remaining",
                          "retry-after"} = {}

Pooled(pools) ==
    {p \in Proxies : \E t \in DOMAIN pools : \E i \in DOMAIN pools[t] : pools[t][i] = p}

\* the pool types in whose list the proxy is
PoolsOf(pools, p) ==
    {t \in DOMAIN pools : \E i \in DOMAIN pools[t] : pools[t][i] = p}

\* C16: for every proxy, success_count + failure_count == total_requests, in
\* every state reached by get_optimal_proxy and report_proxy_result calls.
C16_CountsAddUp ==
    \A i \in DOMAIN proxy_health :
        proxy_health[i][2].success_count + proxy_health[i][2].failure_count
            = proxy_health[i][2].total_requests

\* C17: every report_proxy_result call, success or failure, counts the outcome
\* in the (site, proxy) entry, leaves success_rate == success_count /
\* total_count there, and a failure lowers a site success rate that was above 0.
C17_SiteEntryCountsEveryResult ==
    [][(ret.op' = "report_proxy_result" /\ ret.raised' = "") =>
          LET before == site_proxy_performance[ret.domain'][ret.arg.proxy']
              after == site_proxy_performance'[ret.domain'][ret.arg.proxy']
          IN  /\ after.total_count = before.total_count + 1
              /\ after.success_count =
                     before.success_count + (IF ret.arg.success' THEN 1 ELSE 0)
              /\ after.success_rate = (after.success_count * ONE) \div after.total_count
              /\ (~ret.arg.success' /\ before.success_rate > 0) =>
                     after.success_rate < before.success_rate]_vars

\* the proxy left the pools in the step
Removed(p) == p \in Pooled(proxy_pools) /\ p \notin Pooled(proxy_pools')

\* C18: cleanup_failed_proxies(threshold) removes a proxy only if it has at
\* least 20 total requests and a success rate below threshold x 100; a proxy
\* with fewer than 20 total requests is never removed; a proxy that is not
\* removed keeps its pools and its health entry.
C18_CleanupRemovesOnlyFailing ==
    [][ret.op' = "cleanup_failed_proxies" =>
          \A p \in Proxies :
              LET health == dict_get(proxy_health, p)
              IN  /\ Removed(p) =>
                         /\ health.total_requests >= 20
                         /\ health.success_rate < ret.arg' * ONE
                  /\ health.total_requests < 20 => ~Removed(p)
                  /\ ~Removed(p) =>
                         /\ PoolsOf(proxy_pools', p) = PoolsOf(proxy_pools, p)
                         /\ dict_get(proxy_health', p) = health]_vars

\* a cleanup removed one proxy and kept one that has 19 requests, all failed
C18_Witness ==
    /\ ret.op = "cleanup_failed_proxies" /\ ret.result = 1
    /\ \E p \in Pooled(proxy_pools) :
          /\ dict_get(proxy_health, p).total_requests = 19
          /\ dict_get(proxy_health, p).success_rate = 0

\* C19: cleanup_failed_proxies(threshold) removes every proxy that has 20 or
\* more total requests and a success rate below the threshold, one with
\* exactly 20 included; none is left in a pool after the call.
C19_CleanupRemovesEveryFailing ==
    [][ret.op' = "cleanup_failed_proxies" =>
          \A p \in Pooled(proxy_pools) :
              (/\ dict_get(proxy_health, p).total_requests >= 20
               /\ dict_get(proxy_health, p).success_rate < ret.arg' * ONE) =>
                  p \notin Pooled(proxy_pools')]_vars

\* the proxies of the pools that satisfy every requirement given, the cooldown
\* included
Satisfying(requirements) ==
    {p \in Pooled(proxy_pools) :
        LET health == dict_get(proxy_health, p)
        IN  /\ \A t \in PoolsOf(proxy_pools, p) :
                  /\ requirements.proxy_type # "" => t = requirements.proxy_type
                  /\ requirements.avoid_datacenter => t # "datacenter"
            /\ requirements.min_success_rate # 0 =>
                  health.success_rate >= requirements.min_success_rate * ONE
            /\ (requirements.max_response_time # 0 /\ health.avg_response_time # <<>>) =>
                  Sum(health.avg_response_time, 1) <=
                      requirements.max_response_time * Len(health.avg_response_time)
            /\ requirements.geo # "" => proxy_catalog[p].country = requirements.geo
            /\ truthy(health.last_used) => now - health.last_used.at >= cooldown}

\* C20: get_optimal_proxy returns None, without raising, exactly when every
\* pool is empty; with proxies in the pools and none passing the filter it
\* returns a proxy of the pools; with some passing it returns one that
\* satisfies every requirement, whatever the strategy.
C20_OptimalProxyMeetsRequirements ==
    [][ret.op' = "get_optimal_proxy" =>
          /\ ret.raised' = ""
          /\ ret.result' = None <=> Pooled(proxy_pools) = {}
          /\ (Pooled(proxy_pools) # {} /\ Satisfying(ret.arg') = {}) =>
                 ret.result' \in Pooled(proxy_pools)
          /\ Satisfying(ret.arg') # {} => ret.result' \in Satisfying(ret.arg')]_vars

\* the proxy was handed out less than 30 seconds ago
InCooldown(p) ==
    /\ truthy(dict_get(proxy_health, p).last_used)
    /\ now - dict_get(proxy_health, p).last_used.at < cooldown

\* C21: with one worker, get_optimal_proxy returns a proxy used less than 30
\* seconds ago only when no proxy passed the filter and the whole pool was
\* fallen back on; when some proxy satisfying the requirements has rested 30
\* seconds or was never used, the proxy returned is not in cooldown.
C21_CooldownUnlessFallback ==
    [][(ret.op' = "get_optimal_proxy" /\ ret.raised' = "" /\ ret.result' # None) =>
          /\ InCooldown(ret.result') => Satisfying(ret.arg') = {}
          /\ Satisfying(ret.arg') # {} => ~InCooldown(ret.result')]_vars

\* best_performing scores two fresh proxies alike and would return the first
\* again: the second call, made at once, returned the other one
C21_Witness ==
    /\ ret.op = "get_optimal_proxy" /\ ret.strategy = "best_performing"
    /\ ret.raised = "" /\ ret.result = 2
    /\ \A p \in {1, 2} :
          /\ dict_get(proxy_health, p).total_requests = 1
          /\ dict_get(proxy_health, p).last_used = datetime_now

\* C28: save_state leaves the registry in memory as it was: every health
\* entry, every site entry and total_cost are the same after the call.
C28_SaveStateChangesNothing ==
    [][ret.op' = "save_state" =>
          /\ proxy_health' = proxy_health
          /\ site_proxy_performance' = site_proxy_performance
          /\ total_cost' = total_cost]_vars

\* the registry a saved file stands for: each entry as it was written, with
\* its times datetimes of the same instants and its blocked sites a set
Restored(file) ==
    [proxy_health |->
         [i \in DOMAIN file.proxy_health |->
             <<file.proxy_health[i][1],
               [file.proxy_health[i][2] EXCEPT
                   !.blocked_sites = [type |-> "set", items |-> @.items],
                   !.last_used = [@ EXCEPT !.type =
                                     IF @ = "NoneType" THEN @ ELSE "datetime"],
                   !.last_success = [@ EXCEPT !.type =
                                     IF @ = "NoneType" THEN @ ELSE "datetime"],
                   !.last_failure = [@ EXCEPT !.type =
                                     IF @ = "NoneType" THEN @ ELSE "datetime"]]>>],
     site_proxy_performance |->
         [url \in DOMAIN file.site_proxy_performance |->
             [proxy \in DOMAIN file.site_proxy_performance[url] |->
                 [file.site_proxy_performance[url][proxy] EXCEPT
                     !.last_used = [@ EXCEPT !.type =
                                       IF @ = "NoneType" THEN @ ELSE "datetime"]]]],
     total_cost |-> file.total_cost]

\* the registry in memory
Registry ==
    [proxy_health |-> proxy_health,
     site_proxy_performance |-> site_proxy_performance,
     total_cost |-> total_cost]

\* the manager holds nothing but what its constructor put there
FreshRegistry ==
    /\ proxy_health = <<>>
    /\ \A url \in DOMAIN site_proxy_performance :
          \A proxy \in DOMAIN site_proxy_performance[url] :
              site_proxy_performance[url][proxy] = fresh_site_perf
    /\ total_cost = 0

\* C24: the file a save_state call writes stands for the registry the call
\* found, and load_state into a newly constructed manager with the same pools
\* installs exactly the registry the file stands for: health counters, rates,
\* response times, timestamps, blocked sites, site entries and total_cost.
C24_SaveLoadRoundTrip ==
    [][/\ (ret.op' = "save_state" /\ ret.raised' = "") =>
              Restored(state_file') = Registry
       /\ (ret.op' = "load_state" /\ state_file.exists /\ FreshRegistry) =>
              Registry' = Restored(state_file)]_vars

\* a newly constructed manager loaded a file that holds a proxy with a time
\* of last use, a success and a blocked site or a failure
C24_Witness ==
    /\ ret.op = "load_state" /\ state_file.exists
    /\ Registry = Restored(state_file)
    /\ total_cost > 0
    /\ \E i \in DOMAIN proxy_health :
          /\ proxy_health[i][2].last_used.type = "datetime"
          /\ proxy_health[i][2].success_count + proxy_health[i][2].failure_count > 0

\* the proxies get_optimal_proxy chooses among: those that pass the filter,
\* and every pooled proxy when none does
Candidates(requirements) ==
    IF Satisfying(requirements) # {} THEN Satisfying(requirements)
    ELSE Pooled(proxy_pools)

\* a success has been reported for the proxy at the site
HasSiteHistory(p, url) == site_proxy_performance[url][p].total_count > 0

\* the success rate the proxy is to be ranked by at the site, as a fraction:
\* the site's when it has one, its global rate otherwise
SiteRating(p, url) ==
    IF HasSiteHistory(p, url) THEN site_proxy_performance[url][p].success_rate
    ELSE dict_get(proxy_health, p).success_rate \div 100

\* C22: best_performing returns the candidate with the highest site success
\* rate for the site, a candidate without site history counting with its
\* global success rate on the same scale; so a candidate whose site success
\* rate is 1.0 is never passed over for one without site history and a lower
\* global success rate.
C22_BestPerformingRanksBySite ==
    [][(/\ ret.op' = "get_optimal_proxy" /\ ret.strategy' = "best_performing"
        /\ ret.raised' = "" /\ ret.result' # None) =>
          \A q \in Candidates(ret.arg') :
              SiteRating(ret.result', ret.domain') >= SiteRating(q, ret.domain')]_vars

\* the weight the claim gives a proxy: max(0.1, success_rate / 100 x (1 + site
\* success rate)), the second factor only for a positive site rate
ClaimedWeight(p, url) ==
    LET rate == dict_get(proxy_health, p).success_rate \div 100
        site == site_proxy_performance[url][p].success_rate
    IN  Max(ONE \div 10,
            IF site > 0 THEN rate + (rate \div 1000) * (site \div 1000) ELSE rate)

\* the candidates are one proxy at 100% and one at 10%, neither with a site
\* rate
FullAndTenth(requirements, url) ==
    /\ Candidates(requirements) = {1, 2}
    /\ \A p \in {1, 2} : site_proxy_performance[url][p].success_rate = 0
    /\ {dict_get(proxy_health, p).success_rate : p \in {1, 2}} = {100 * ONE, 10 * ONE}

\* C23: weighted_random gives every candidate the weight max(0.1,
\* success_rate/100 x (1 + positive site rate)), which is positive; for two
\* proxies at 100% and 10% without site history the weights are 1.0 and 0.1,
\* the first drawn with probability 10/11.
C23_WeightedRandomWeights ==
    [][(/\ ret.op' = "get_optimal_proxy" /\ ret.strategy' = "weighted_random"
        /\ ret.raised' = "" /\ ret.result' # None) =>
          LET url == ret.domain'
              candidates == Candidates(ret.arg')
              weight(p) == selection_weight(p, url, proxy_health)
              total == weight(1) + weight(2)
          IN  /\ \A p \in candidates :
                    /\ weight(p) = ClaimedWeight(p, url)
                    /\ weight(p) > 0
              /\ FullAndTenth(ret.arg', url) =>
                    /\ {weight(1), weight(2)} = {ONE, ONE \div 10}
                    /\ \A p \in {1, 2} :
                          weight(p) = ONE => 11 * weight(p) = 10 * total]_vars

\* the weighted draw over a proxy at 100% and one at 10% returned the one at
\* 10%
C23_Witness ==
    /\ ret.op = "get_optimal_proxy" /\ ret.strategy = "weighted_random"
    /\ ret.raised = "" /\ ret.result # None
    /\ dict_get(proxy_health, ret.result).success_rate = 10 * ONE
    /\ \E p \in Proxies : dict_get(proxy_health, p).success_rate = 100 * ONE
    /\ dict_get(proxy_health, ret.result).total_requests = 2

\* C27: two workers inside get_optimal_proxy at once can both be handed the
\* same proxy under least_used, inside its cooldown and with another proxy
\* free (the state of C27_Witness).  What holds in every run: a worker is
\* handed a proxy inside its cooldown from a list that passed the filter only
\* when the other worker has been inside get_optimal_proxy as well.
C27_CooldownBrokenOnlyByRace ==
    [][\A w \in Workers :
          (/\ workers[w].pc = "selected" /\ workers'[w].pc = "returned"
           /\ workers[w].filtered
           /\ InCooldown(workers[w].selected_proxy)) =>
              \E v \in Workers \ {w} : workers[v].pc # "idle"]_vars

\* both workers were handed proxy 1 by least_used at the same instant, each
\* from a list that passed the filter, while proxy 2 has never been used
C27_Witness ==
    /\ proxy_request.strategy = "least_used"
    /\ proxy_request.requirements = no_requirements
    /\ \A w \in Workers :
          /\ workers[w].pc = "returned"
          /\ workers[w].selected_proxy = 1
          /\ workers[w].filtered
          /\ Len(workers[w].available_proxies) = 2
    /\ dict_get(proxy_health, 1).last_used = datetime_now
    /\ dict_get(proxy_health, 1).total_requests = 2
    /\ 2 \in Pooled(proxy_pools)
    /\ dict_get(proxy_health, 2).total_requests = 0

(* ------------------------------ scrape loop ---------------------------- *)
\* the call of scrape has returned from a frame entered by the retry of line 187
ReturnedFromRetry == scraper.pc = "idle" /\ scraper.depth >= 2

\* C25: after a ban detected with confidence above the threshold and a
\* recovery whose directive has success = true, scrape fetches the url again
\* before it returns to its caller: the frame the retry entered has a fetch
\* result when the call returns.
C25_RetryFetchesAgain == ReturnedFromRetry => scraper.result # "None"

\* the fetch of step 6 has just returned to scrape
Fetched == ret.op = "fetch"

\* C26: a call of scrape that has fetched reports the outcome to both stores
\* before it ends: update_reputation on the detector and report_proxy_result
\* on the proxy manager follow every fetch.
C26_FetchReportedToBothStores ==
    /\ Fetched ~> (ret.op = "update_reputation" /\ ret.domain = netloc(scraper.url))
    /\ Fetched ~> (ret.op = "report_proxy_result" /\ ret.domain = scraper.url)

\* the strategies a closed loop may choose for a ban type
AbandonOrFirst(ban_type) == {"abandon", FirstPreference(ban_type)}

\* C30: when execute_recovery is only given what get_recovery_strategy chose
\* for the same domain and ban type, as in scrape, the strategy chosen for a
\* ban type is ABANDON or the first entry of its preference list (WAIT without
\* a list): that holds of the choice about to be made, of the recovery just
\* carried out and of every recovery remembered as successful.
C30_AbandonOrFirstPreference ==
    /\ scraper.pc = "recover" =>
           get_recovery_strategy(netloc(scraper.url), scraper.ban_type)
               \in AbandonOrFirst(scraper.ban_type)
    /\ ret.op = "execute_recovery" => ret.strategy \in AbandonOrFirst(ret.ban_type)
    /\ \A d \in Domains : \A i \in DOMAIN successful_recoveries[d] :
           successful_recoveries[d][i].strategy =
               FirstPreference(successful_recoveries[d][i].ban_type)

\* a rate limit met with recoveries from rate limits on record, the loop's own
\* among them: WAIT is chosen again, SLOW_DOWN and ROTATE_PROXY are not
C30_Witness ==
    /\ ret.op = "execute_recovery"
    /\ ret.ban_type = "rate_limit"
    /\ ret.strategy = "wait"
    /\ scraper.depth >= 2
    /\ Len(successful_recoveries[ret.domain]) >= 2
    /\ Len(recovery_strategies["rate_limit"]) > 1

\* a call of scrape is running
ScrapeRunning == scraper.pc # "idle"

\* every frame below the innermost one has recorded a ban for the domain
NestingCountedInBans ==
    /\ scraper.depth - 1 <= domain_reputation[netloc(scraper.url)].bans
    /\ scraper.depth <= ban_threshold + 1

\* a recovery by ABANDON is followed by step 8, never by the retry
AbandonEndsRetries ==
    (ret.op' = "execute_recovery" /\ ret.strategy' = "abandon") =>
        /\ ~ret.result.success'
        /\ scraper.pc' = "update"

\* the domain is past the point where get_recovery_strategy gives up
GivenUp(domain) ==
    \/ domain_reputation[domain].bans > ban_threshold
    \/ domain_reputation[domain].reputation_score < reputation_threshold

\* C29: the ban-recovery recursion of scrape terminates.  Each nested call
\* follows one more recorded ban, so the nesting is bounded; once bans > 10 or
\* the score is below 0.3 the strategy is ABANDON, which has success = false
\* and is never followed by a retry; and, each fetch returning, a call that
\* runs comes to its end.
C29_RecursionTerminates ==
    /\ [](ScrapeRunning => NestingCountedInBans)
    /\ [](scraper.pc = "recover" /\ GivenUp(netloc(scraper.url)) =>
              get_recovery_strategy(netloc(scraper.url), scraper.ban_type) = "abandon")
    /\ [][AbandonEndsRetries]_vars
    /\ ScrapeRunning ~> ~ScrapeRunning

\* retries nested several deep, the last of them ended by ABANDON once the
\* bans passed the threshold
C29_Witness ==
    /\ ret.op = "execute_recovery"
    /\ ret.strategy = "abandon"
    /\ scraper.depth >= 3
    /\ scraper.pc = "update"
    /\ domain_reputation[ret.domain].bans = ban_threshold + 1

====
